---- MODULE Spec2Model ----
(***************************************************************************)
(* Live session orchestrator of meeting_monitor:                           *)
(*   LiveAssistantSession (workflow/live_session.py), the module-level     *)
(*   control surface start_new_session / stop_current_session /            *)
(*   force_reset_session, LocalCaptureService (workflow/local_capture.py)  *)
(*   and the HTTP / WebSocket handlers of api/endpoints.py.                *)
(*                                                                         *)
(* Coroutines run on one asyncio event loop: a coroutine keeps the loop    *)
(* from one suspension point to the next.  loopOwner names the coroutine   *)
(* that currently holds the loop (NoCall when the loop is free); steps of  *)
(* worker threads (audio capture, transcription) are not gated by it.      *)
(***************************************************************************)
EXTENDS Integers, Sequences, FiniteSets, TLC

\* ---------------------------------------------------------------- bounds
MaxSessions == 2        \* session objects created by start_new_session
MaxCalls    == 2        \* requests / callers in flight at the same time
MaxSubs     == 2        \* WebSocket subscribers
MaxChunks   == 2        \* audio chunks handed to transcription threads
SoloChunks  == 1        \* the same while the whole session life is studied
MaxTicks    == 1        \* hint calls the insight loop of a session makes
SoloSessions == 1       \* session objects created when one session is studied
MaxInsightTicks == 2    \* the same while the insight loop is studied
MaxCardRequests == 1    \* POST /battlecard requests
MaxChars    == 4        \* length of the texts the hallucination filter is given
MaxSegments == 3        \* segments in a transcript that is formatted
MaxBlocks   == 4        \* audio blocks a capturer is given
ChunkBlocks == 2        \* blocks in a chunk while the capturer is studied
MaxErrors   == 2        \* device errors that are counted
MaxEvents   == 2        \* events published while the order of delivery is studied

Sessions == 1..MaxSessions
Calls    == 1..MaxCalls
Subs     == 1..MaxSubs
Threads  == 1..MaxChunks
Events   == 1..MaxEvents

NoSession == 0          \* _active_session = None
NoCall    == 0          \* the event loop is free
NoSub     == 0          \* no send of _broadcast is pending

\* SessionStatus
Statuses == {"idle", "starting", "running", "processing", "completed", "error"}

\* SessionConfig: the fields the orchestrator branches on
\* (enable_vision, enable_transcription and enable_face_sentiment keep their
\* default True)
Configs == [enable_final_sync : BOOLEAN, capture_mode : {"local", "remote"}]
DefaultConfig == [enable_final_sync |-> TRUE, capture_mode |-> "local"]

\* result of a call: r is the kind of value returned, transcript tells
\* whether result["transcript"] is non-empty, lead what result["lead"] holds
\* and http the "status" field of the handler's HTTP response
NoResult == [r |-> "none", transcript |-> FALSE, lead |-> "none", http |-> "none"]
Res(r, t, l) == [r |-> r, transcript |-> t, lead |-> l, http |-> "none"]

VARIABLES
    \* ---- LiveAssistantSession objects, one per session id
    status,                \* state.status
    config,                \* self.config
    capture_service,       \* self.capture_service is not None
    capture_running,       \* self.capture_service._running
    insight_task,          \* self._insight_task
    face_task,             \* self._face_sentiment_task
    audio_thread,          \* LocalCaptureService._audio_thread
    callbacks,             \* set_callbacks() has registered the observers
    transcript_segments,   \* state.transcript_segments
    audio_chunks_processed,\* state.audio_chunks_processed
    chunks_submitted,      \* chunks the audio capturer has emitted
    gemini_calls,          \* state.gemini_calls
    \* ---- transcription threads, one per audio chunk
    th_pc,                 \* position of the thread in its function
    th_kind,               \* "local": transcribe_in_background,
                           \* "remote": process_audio_in_background
    th_sess,               \* the session the thread works for
    th_rms,                \* RMS of chunk.data, in thousandths of full scale
    th_raw,                \* segments: what the transcribers returned
    th_valid,              \* valid_segments / segments it is about to append
    th_read,               \* the counter value loaded by "+= 1"
    th_invoked,            \* transcriber calls made for the chunk
    th_published,          \* transcript events published for the chunk
    th_failed,             \* the thread ended in its except branch
    completion,            \* threads in the order they appended
    \* ---- /session-stream connections and the _broadcast in progress
    ws_pc,                 \* "new", "open" (in the receive loop), "gone"
    stalled,               \* subscribers whose transport takes no more data
    ws_event,              \* what the receive loop of a connection saw last
    first,                 \* kind of the first message a connection was sent
    late,                  \* a connection was sent an event outside the set
    bc_pc,                 \* "idle", or "blocked" in a send
    bc_msg,                \* message of the _broadcast in progress
    bc_start,              \* the set when the latest _broadcast began
    bc_seen,               \* subscribers its loop has visited
    bc_disconnected,       \* disconnected: subscribers whose send raised
    bc_wait,               \* subscriber whose send has not returned
    bc_raised,             \* the latest _broadcast ended with an exception
    \* ---- module globals
    created,               \* number of LiveAssistantSession objects created
    active_session,        \* _active_session
    \* ---- broadcast hub
    session_websockets,    \* endpoints.session_websockets
    broken,                \* subscribers whose transport fails on send
    delivered,             \* the last status event each subscriber was sent
    loop_queue,            \* _broadcast coroutines scheduled on the loop
    \* ---- callers (requests / coroutines)
    pc, kind, callSess, result, loopOwner,
    \* ---- bookkeeping of what each call / session has done
    entry,                 \* status of the session the call set out to stop
    persisted,             \* the call has written the session to the database
    finalized,             \* the call has run _finalize_lead
    finalize_runs,         \* _finalize_lead invocations per session
    crm_calls,             \* OdooClient.create_lead invocations per session
    notified,              \* statuses the status observer was called with
    \* ---- insight loop of a session: state it writes, locals of its tick
    quick_hints,           \* state.quick_hints
    detected_entities,     \* state.detected_entities
    battlecards,           \* state.battlecards
    tk_entities,           \* entities: what the extractor returned this tick
    tk_targets,            \* targets still to go, the one in hand first
    tk_requests,           \* get_battlecard calls of the tick
    tk_appended,           \* battlecards the tick has appended
    dropped,               \* sessions force_reset_session has dropped
    \* ---- POST /battlecard request in progress
    rq_pc,                 \* "idle", "card", "web"
    rq_name,               \* request.competitor_name
    rq_count,              \* requests made so far
    \* ---- one application of a pure function
    fl_text,               \* argument of is_hallucination
    fl_out,                \* its return value
    fl_done,               \* it has returned
    fm_segs,               \* argument of format_transcript_with_speakers
    fm_text,               \* its return value
    fm_done,               \* it has returned
    \* ---- LocalCaptureService of a session: audio stream and buffer
    audio_stream,          \* _audio_stream: "none", or "open"
    audio_buffer,          \* _audio_buffer: the blocks since the last reset
    blocks_captured,       \* blocks the audio callback has been given
    emitted,               \* the chunks _process_audio_buffer has emitted
    chunk_samples,         \* chunk_samples, in blocks of the stream
    cap_stopped,           \* LocalCaptureService.stop() has run to its end
    open_errors,           \* device errors of the audio loop that were counted
    \* ---- _broadcast coroutines that overlap, one per published event
    ev_published,          \* events the observers have published
    loop_ready,            \* coroutines the loop will run, first one first
    fo_pc,                 \* "new", "scheduled", "blocked", "done", "raised"
    fo_pos,                \* the subscriber the set iterator gave last
    fo_size,               \* size of the set when the iteration began
    fo_disconnected,       \* disconnected: subscribers whose send raised
    send_waiters,          \* coroutines suspended in a send, per subscriber
    inbox                  \* events handed to each subscriber's transport

sessVars  == <<status, config, capture_service, capture_running, insight_task,
               face_task, audio_thread, callbacks, transcript_segments,
               audio_chunks_processed, chunks_submitted, gemini_calls>>
thrVars   == <<th_pc, th_kind, th_sess, th_rms, th_raw, th_valid, th_read,
               th_invoked, th_published, th_failed, completion>>
fanVars   == <<ws_pc, stalled, ws_event, first, late, bc_pc, bc_msg, bc_start,
               bc_seen, bc_disconnected, bc_wait, bc_raised>>
globVars  == <<created, active_session>>
hubVars   == <<session_websockets, broken, delivered, loop_queue>>
callVars  == <<pc, kind, callSess, result, loopOwner>>
ghostVars == <<entry, persisted, finalized, finalize_runs, crm_calls,
               notified>>
insVars   == <<quick_hints, detected_entities, battlecards, tk_entities,
               tk_targets, tk_requests, tk_appended, dropped>>
reqVars   == <<rq_pc, rq_name, rq_count>>
fnVars    == <<fl_text, fl_out, fl_done, fm_segs, fm_text, fm_done>>
capVars   == <<audio_stream, audio_buffer, blocks_captured, emitted,
               chunk_samples, cap_stopped, open_errors>>
ordVars   == <<ev_published, loop_ready, fo_pc, fo_pos, fo_size,
               fo_disconnected, send_waiters, inbox>>
auxVars   == <<insVars, reqVars, fnVars, capVars, ordVars>>
vars == <<sessVars, thrVars, globVars, hubVars, fanVars, callVars, ghostVars,
          auxVars>>

\* ------------------------------------------------------------- messages
StatusMsg(st) == [type |-> "status", val |-> st]
Msg(t)        == [type |-> t, val |-> ""]

\* asyncio.run_coroutine_threadsafe(_broadcast(m), loop): the coroutine is
\* queued on the loop and runs when the loop gets to it
Schedule(q, m) == Append(q, m)

\* ------------------------------------------------------------- guards
\* start(): "if self.state.status == SessionStatus.RUNNING: return"
StartRejects(st) == st = "running"

\* stop(): "if self.state.status not in [RUNNING, STARTING]: return {...}"
StopAccepts(st) == st \in {"running", "starting"}

\* LiveAssistantSession.is_running
IsRunning(s) == status[s] = "running"

\* status set by the except branch of start()
StartFailStatus_Idle == "idle"
StartFailStatus_Kept == "starting"
StartFailStatus == "error"

\* status stop() sets once a call is past its guard, before its first await
StopEnterStatus_Unset(st) == st
StopEnterStatus(st) == "processing"

CanRun(c) == loopOwner \in {NoCall, c}

\* a new request runs in the first free slot
FreeSlot(c) == pc[c] = "idle" /\ \A d \in Calls : d < c => pc[d] # "idle"

\* ------------------------------------------------------------- helpers
Goto(c, p, own) ==
    /\ pc' = [pc EXCEPT ![c] = p]
    /\ loopOwner' = own

\* _set_status: assign the status, then call the observer if one is set
SetStatus(s, st) ==
    /\ status' = [status EXCEPT ![s] = st]
    /\ IF callbacks[s]
         THEN /\ loop_queue' = Schedule(loop_queue, StatusMsg(st))
              /\ notified' = [notified EXCEPT ![s] = @ \cup {st}]
         ELSE UNCHANGED <<loop_queue, notified>>

\* ------------------------------------------------------------- Init
\* SessionState defaults, no tick and no /battlecard request in progress
InitInsight ==
    /\ quick_hints = [s \in Sessions |-> <<>>]
    /\ detected_entities = [s \in Sessions |-> <<>>]
    /\ battlecards = [s \in Sessions |-> <<>>]
    /\ tk_entities = [s \in Sessions |-> <<>>]
    /\ tk_targets = [s \in Sessions |-> <<>>]
    /\ tk_requests = [s \in Sessions |-> 0]
    /\ tk_appended = [s \in Sessions |-> 0]
    /\ dropped = {}
    /\ rq_pc = "idle"
    /\ rq_name = <<>>
    /\ rq_count = 0

\* no event has been published
InitOrder ==
    /\ ev_published = 0
    /\ loop_ready = <<>>
    /\ fo_pc = [e \in Events |-> "new"]
    /\ fo_pos = [e \in Events |-> NoSub]
    /\ fo_size = [e \in Events |-> 0]
    /\ fo_disconnected = [e \in Events |-> {}]
    /\ send_waiters = [w \in Subs |-> <<>>]
    /\ inbox = [w \in Subs |-> <<>>]

\* the capturers: the sessions in `streaming` have their stream open, no
\* block has been captured, and a chunk is `n` blocks long
InitCapturer(streaming, n) ==
    /\ audio_stream = [s \in Sessions |-> IF s \in streaming THEN "open" ELSE "none"]
    /\ audio_buffer = [s \in Sessions |-> <<>>]
    /\ blocks_captured = [s \in Sessions |-> 0]
    /\ emitted = [s \in Sessions |-> <<>>]
    /\ chunk_samples = n
    /\ cap_stopped = [s \in Sessions |-> FALSE]
    /\ open_errors = [s \in Sessions |-> 0]
    /\ InitOrder

\* is_hallucination is not being applied
InitNoFilter ==
    /\ fl_text = <<>>
    /\ fl_out = FALSE
    /\ fl_done = FALSE

\* format_transcript_with_speakers is not being applied
InitNoFormat ==
    /\ fm_segs = <<>>
    /\ fm_text = <<>>
    /\ fm_done = FALSE

InitCommon ==
    /\ InitInsight
    /\ InitCapturer({}, 1)
    /\ active_session = NoSession
    /\ status = [s \in Sessions |-> "idle"]
    /\ capture_service = [s \in Sessions |-> FALSE]
    /\ capture_running = [s \in Sessions |-> FALSE]
    /\ insight_task = [s \in Sessions |-> "none"]
    /\ face_task = [s \in Sessions |-> "none"]
    /\ audio_thread = [s \in Sessions |-> "none"]
    /\ callbacks = [s \in Sessions |-> FALSE]
    /\ transcript_segments = [s \in Sessions |-> <<>>]
    /\ audio_chunks_processed = [s \in Sessions |-> 0]
    /\ chunks_submitted = [s \in Sessions |-> 0]
    /\ gemini_calls = [s \in Sessions |-> 0]
    /\ th_pc = [k \in Threads |-> "idle"]
    /\ th_kind = [k \in Threads |-> "none"]
    /\ th_sess = [k \in Threads |-> NoSession]
    /\ th_rms = [k \in Threads |-> 0]
    /\ th_raw = [k \in Threads |-> <<>>]
    /\ th_valid = [k \in Threads |-> <<>>]
    /\ th_read = [k \in Threads |-> 0]
    /\ th_invoked = [k \in Threads |-> {}]
    /\ th_published = [k \in Threads |-> 0]
    /\ th_failed = [k \in Threads |-> FALSE]
    /\ completion = <<>>
    /\ session_websockets = {}
    /\ broken = {}
    /\ delivered = [w \in Subs |-> "none"]
    /\ ws_pc = [w \in Subs |-> "new"]
    /\ stalled = {}
    /\ ws_event = [w \in Subs |-> "none"]
    /\ first = [w \in Subs |-> "none"]
    /\ late = [w \in Subs |-> FALSE]
    /\ bc_pc = "idle"
    /\ bc_msg = Msg("none")
    /\ bc_start = {}
    /\ bc_seen = {}
    /\ bc_disconnected = {}
    /\ bc_wait = NoSub
    /\ bc_raised = FALSE
    /\ loop_queue = <<>>
    /\ pc = [c \in Calls |-> "idle"]
    /\ kind = [c \in Calls |-> "none"]
    /\ callSess = [c \in Calls |-> NoSession]
    /\ result = [c \in Calls |-> NoResult]
    /\ loopOwner = NoCall
    /\ entry = [c \in Calls |-> "none"]
    /\ persisted = [c \in Calls |-> FALSE]
    /\ finalized = [c \in Calls |-> FALSE]
    /\ finalize_runs = [s \in Sessions |-> 0]
    /\ crm_calls = [s \in Sessions |-> 0]
    /\ notified = [s \in Sessions |-> {}]

\* the service after import: no session object exists
Init ==
    /\ InitCommon
    /\ InitNoFilter
    /\ InitNoFormat
    /\ created = 0
    /\ config = [s \in Sessions |-> DefaultConfig]


\* the service after one /start-session request was answered "started":
\* the session is RUNNING with its observers registered, its capturer is
\* starting with chunks of `n` blocks, and no request is in progress
InitStarted(n) ==
    /\ InitInsight
    /\ InitCapturer({}, n)
    /\ InitNoFilter
    /\ InitNoFormat
    /\ created = 1
    /\ active_session = 1
    /\ \E m \in {"local", "remote"} :
          config = [s \in Sessions |->
                      IF s = 1 THEN [DefaultConfig EXCEPT !.capture_mode = m]
                               ELSE DefaultConfig]
    /\ status = [s \in Sessions |-> IF s = 1 THEN "running" ELSE "idle"]
    /\ capture_service = [s \in Sessions |-> s = 1]
    /\ capture_running = [s \in Sessions |-> s = 1]
    /\ insight_task = [s \in Sessions |-> IF s = 1 THEN "active" ELSE "none"]
    /\ face_task = [s \in Sessions |->
                      IF s = 1 /\ config[s].capture_mode = "local"
                        THEN "active" ELSE "none"]
    /\ audio_thread = [s \in Sessions |-> IF s = 1 THEN "opening" ELSE "none"]
    /\ callbacks = [s \in Sessions |-> s = 1]
    /\ transcript_segments = [s \in Sessions |-> <<>>]
    /\ audio_chunks_processed = [s \in Sessions |-> 0]
    /\ chunks_submitted = [s \in Sessions |-> 0]
    /\ gemini_calls = [s \in Sessions |-> 0]
    /\ th_pc = [k \in Threads |-> "idle"]
    /\ th_kind = [k \in Threads |-> "none"]
    /\ th_sess = [k \in Threads |-> NoSession]
    /\ th_rms = [k \in Threads |-> 0]
    /\ th_raw = [k \in Threads |-> <<>>]
    /\ th_valid = [k \in Threads |-> <<>>]
    /\ th_read = [k \in Threads |-> 0]
    /\ th_invoked = [k \in Threads |-> {}]
    /\ th_published = [k \in Threads |-> 0]
    /\ th_failed = [k \in Threads |-> FALSE]
    /\ completion = <<>>
    /\ session_websockets = {}
    /\ broken = {}
    /\ delivered = [w \in Subs |-> "none"]
    /\ ws_pc = [w \in Subs |-> "new"]
    /\ stalled = {}
    /\ ws_event = [w \in Subs |-> "none"]
    /\ first = [w \in Subs |-> "none"]
    /\ late = [w \in Subs |-> FALSE]
    /\ bc_pc = "idle"
    /\ bc_msg = Msg("none")
    /\ bc_start = {}
    /\ bc_seen = {}
    /\ bc_disconnected = {}
    /\ bc_wait = NoSub
    /\ bc_raised = FALSE
    /\ loop_queue = <<>>
    /\ pc = [c \in Calls |-> "idle"]
    /\ kind = [c \in Calls |-> "none"]
    /\ callSess = [c \in Calls |-> NoSession]
    /\ result = [c \in Calls |-> NoResult]
    /\ loopOwner = NoCall
    /\ entry = [c \in Calls |-> "none"]
    /\ persisted = [c \in Calls |-> FALSE]
    /\ finalized = [c \in Calls |-> FALSE]
    /\ finalize_runs = [s \in Sessions |-> 0]
    /\ crm_calls = [s \in Sessions |-> 0]
    /\ notified = [s \in Sessions |-> {}]

\* chunks of one block: every audio callback completes a chunk
InitWorker == InitStarted(1)


\* ========================================================= call returns
\* stop() returns or raises.  stop_current_session turns an exception into
\* {"error": str(e)} and the /stop-session handler goes on to persist;
\* start_new_session swallows the exception and goes on to create the new
\* session.
StopReturn(c, res) ==
    CASE kind[c] = "stop_session" ->
            /\ result' = [result EXCEPT ![c] =
                            IF res.r = "raised" THEN Res("error", FALSE, "none")
                                                ELSE res]
            /\ Goto(c, "persist", NoCall)
      [] kind[c] = "start_session" ->
            /\ UNCHANGED result
            /\ Goto(c, "sns_create", c)

\* start() returns or raises.  An exception leaves start_new_session and the
\* /start-session handler answers HTTP 500; otherwise the handler goes on to
\* register the observers.
StartReturn(c, res) ==
    IF res.r = "raised"
      THEN /\ result' = [result EXCEPT ![c] = [res EXCEPT !.http = "http500"]]
           /\ Goto(c, "done", NoCall)
      ELSE /\ result' = [result EXCEPT ![c] = res]
           /\ Goto(c, "set_callbacks", c)

\* ================================================= LiveAssistantSession.start
\* guard and _set_status(STARTING)
StartEnter(c) ==
    /\ pc[c] = "start_enter"
    /\ CanRun(c)
    /\ LET s == callSess[c] IN
       IF StartRejects(status[s])
         THEN /\ StartReturn(c, Res("already_running", FALSE, "none"))
              /\ UNCHANGED <<sessVars, globVars, hubVars, kind, callSess, ghostVars>>
         ELSE /\ SetStatus(s, "starting")
              /\ Goto(c, "start_wire", c)
              /\ UNCHANGED <<config, capture_service, capture_running,
                             insight_task, face_task, audio_thread, callbacks,
                             transcript_segments, audio_chunks_processed,
                             chunks_submitted, gemini_calls, globVars,
                             session_websockets, broken, delivered,
                             kind, callSess, result,
                             entry, persisted, finalized, finalize_runs,
                             crm_calls>>
    /\ UNCHANGED thrVars
    /\ UNCHANGED fanVars
    /\ UNCHANGED auxVars

\* places where the try block of start() can raise:
\*   capture_init  - building CaptureConfig / LocalCaptureService
\*   capture_start - inside LocalCaptureService.start(), after _running = True
\*                   and the screen task, before the audio thread runs
StartFaults == {"none", "capture_init", "capture_start"}

\* the try block of start(): wire capture and the scheduler, then RUNNING;
\* on an exception ERROR and re-raise
StartWire(c, fault) ==
    /\ pc[c] = "start_wire"
    /\ CanRun(c)
    /\ LET s == callSess[c] IN
       /\ capture_service' = [capture_service EXCEPT ![s] =
                                 IF fault = "capture_init" THEN @ ELSE TRUE]
       /\ capture_running' = [capture_running EXCEPT ![s] =
                                 IF fault = "capture_init" THEN @ ELSE TRUE]
       /\ audio_thread' = [audio_thread EXCEPT ![s] =
                                 IF fault = "none" THEN "opening" ELSE @]
       /\ insight_task' = [insight_task EXCEPT ![s] =
                                 IF fault = "none" THEN "active" ELSE @]
       /\ face_task' = [face_task EXCEPT ![s] =
                                 IF fault = "none" /\ config[s].capture_mode = "local"
                                   THEN "active" ELSE @]
       /\ IF fault = "none"
            THEN /\ SetStatus(s, "running")
                 /\ StartReturn(c, Res("ok", FALSE, "none"))
            ELSE /\ SetStatus(s, StartFailStatus)
                 /\ StartReturn(c, Res("raised", FALSE, "none"))
    /\ UNCHANGED <<config, callbacks, transcript_segments,
                   audio_chunks_processed, chunks_submitted, gemini_calls,
                   globVars, session_websockets, broken, delivered,
                   kind, callSess, entry, persisted, finalized, finalize_runs,
                   crm_calls>>
    /\ UNCHANGED thrVars
    /\ UNCHANGED fanVars
    /\ UNCHANGED auxVars


\* ================================================== LiveAssistantSession.stop
\* guard and _set_status(PROCESSING)
StopEnter(c) ==
    /\ pc[c] = "stop_enter"
    /\ CanRun(c)
    /\ LET s == callSess[c] IN
       IF ~StopAccepts(status[s])
         THEN /\ StopReturn(c, Res("not_running", FALSE, "none"))
              /\ UNCHANGED <<sessVars, globVars, hubVars, kind, callSess,
                             ghostVars>>
         ELSE /\ SetStatus(s, StopEnterStatus(status[s]))
              /\ Goto(c, "stop_face", c)
              /\ UNCHANGED <<config, capture_service, capture_running,
                             insight_task, face_task, audio_thread, callbacks,
                             transcript_segments, audio_chunks_processed,
                             chunks_submitted, gemini_calls, globVars,
                             session_websockets, broken, delivered,
                             kind, callSess, result,
                             entry, persisted, finalized, finalize_runs,
                             crm_calls>>
    /\ UNCHANGED thrVars
    /\ UNCHANGED fanVars
    /\ UNCHANGED auxVars

\* Task.cancel(): a pending task gets a cancellation request, a finished
\* task is left as it is
Cancel(t) == IF t \in {"active", "hints", "card", "web", "backoff"}
               THEN "cancelling" ELSE t

\* "if self._face_sentiment_task: cancel(); await wait_for(shield(task), 2.0)"
\* A task that already ended with an exception hands that exception to the
\* awaiting stop(); only CancelledError and TimeoutError are caught.
StopFace(c) ==
    /\ pc[c] = "stop_face"
    /\ CanRun(c)
    /\ LET s == callSess[c] IN
       /\ face_task' = [face_task EXCEPT ![s] = Cancel(@)]
       /\ CASE face_task[s] = "active" ->
                  /\ Goto(c, "stop_wait_face", NoCall)
                  /\ UNCHANGED result
            [] face_task[s] = "failed" ->
                  StopReturn(c, Res("raised", FALSE, "none"))
            [] OTHER ->
                  /\ Goto(c, "stop_insight", c)
                  /\ UNCHANGED result
    /\ UNCHANGED <<status, config, capture_service, capture_running,
                   insight_task, audio_thread, callbacks, transcript_segments,
                   audio_chunks_processed, chunks_submitted, gemini_calls,
                   globVars, hubVars, kind, callSess, ghostVars>>
    /\ UNCHANGED thrVars
    /\ UNCHANGED fanVars
    /\ UNCHANGED auxVars

\* the wait ends: the task finished (CancelledError) or the 2 s ran out
\* (TimeoutError); both are swallowed
StopWaitFace(c) ==
    /\ pc[c] = "stop_wait_face"
    /\ CanRun(c)
    /\ Goto(c, "stop_insight", c)
    /\ UNCHANGED <<sessVars, globVars, hubVars, kind, callSess, result,
                   ghostVars>>
    /\ UNCHANGED thrVars
    /\ UNCHANGED fanVars
    /\ UNCHANGED auxVars

\* "if self._insight_task: cancel(); await wait_for(shield(task), 2.0)"
StopInsight(c) ==
    /\ pc[c] = "stop_insight"
    /\ CanRun(c)
    /\ LET s == callSess[c] IN
       /\ insight_task' = [insight_task EXCEPT ![s] = Cancel(@)]
       /\ IF Cancel(insight_task[s]) = "cancelling"
            THEN Goto(c, "stop_wait_insight", NoCall)
            ELSE Goto(c, "stop_capture", c)
    /\ UNCHANGED <<status, config, capture_service, capture_running,
                   face_task, audio_thread, callbacks, transcript_segments,
                   audio_chunks_processed, chunks_submitted, gemini_calls,
                   globVars, hubVars, kind, callSess, result, ghostVars>>
    /\ UNCHANGED thrVars
    /\ UNCHANGED fanVars
    /\ UNCHANGED auxVars

StopWaitInsight(c) ==
    /\ pc[c] = "stop_wait_insight"
    /\ CanRun(c)
    /\ Goto(c, "stop_capture", c)
    /\ UNCHANGED <<sessVars, globVars, hubVars, kind, callSess, result,
                   ghostVars>>
    /\ UNCHANGED thrVars
    /\ UNCHANGED fanVars
    /\ UNCHANGED auxVars

\* stop() going on to the finalization without stopping the capture service
StopCapture_Skipped(c) ==
    /\ pc[c] = "stop_capture"
    /\ CanRun(c)
    /\ Goto(c, "stop_finalize", c)
    /\ UNCHANGED <<sessVars, globVars, hubVars, kind, callSess, result,
                   ghostVars>>
    /\ UNCHANGED thrVars
    /\ UNCHANGED fanVars
    /\ UNCHANGED auxVars

\* "if self.capture_service: await wait_for(self.capture_service.stop(), 3.0)"
\* LocalCaptureService.stop() returns at once when _running is False;
\* otherwise it clears _running and awaits the cancelled screen task.
StopCapture(c) ==
    /\ pc[c] = "stop_capture"
    /\ CanRun(c)
    /\ LET s == callSess[c] IN
       IF capture_service[s] /\ capture_running[s]
         THEN /\ capture_running' = [capture_running EXCEPT ![s] = FALSE]
              /\ Goto(c, "stop_wait_capture", NoCall)
         ELSE /\ UNCHANGED capture_running
              /\ Goto(c, "stop_finalize", c)
    /\ UNCHANGED <<status, config, capture_service, insight_task, face_task,
                   audio_thread, callbacks, transcript_segments,
                   audio_chunks_processed, chunks_submitted, gemini_calls,
                   globVars, hubVars, kind, callSess, result, ghostVars>>
    /\ UNCHANGED thrVars
    /\ UNCHANGED fanVars
    /\ UNCHANGED auxVars

\* how the awaited LocalCaptureService.stop() ends:
\*   ok      - screen task gone, stream closed, audio thread joined for
\*             at most 2 s, queues cleared
\*   timeout - wait_for gives up after 3 s: "capture_service._running = False"
\*   raise   - the screen task ended with an exception, or stream.stop() /
\*             stream.close() raises; stop() catches only TimeoutError
CaptureStopOutcomes == {"ok", "timeout", "raise"}

StopWaitCapture(c, outcome) ==
    /\ pc[c] = "stop_wait_capture"
    /\ CanRun(c)
    /\ LET s == callSess[c] IN
       /\ capture_running' = [capture_running EXCEPT ![s] =
                                 IF outcome = "timeout" THEN FALSE ELSE @]
       /\ audio_stream' = [audio_stream EXCEPT ![s] =
                              IF outcome = "ok" THEN "none" ELSE @]
       /\ cap_stopped' = [cap_stopped EXCEPT ![s] = @ \/ outcome = "ok"]
       /\ IF outcome = "raise"
            THEN StopReturn(c, Res("raised", FALSE, "none"))
            ELSE /\ Goto(c, "stop_finalize", c)
                 /\ UNCHANGED result
    /\ UNCHANGED <<status, config, capture_service, insight_task, face_task,
                   audio_thread, callbacks, transcript_segments,
                   audio_chunks_processed, chunks_submitted, gemini_calls,
                   globVars, hubVars, kind, callSess, ghostVars>>
    /\ UNCHANGED thrVars
    /\ UNCHANGED fanVars
    /\ UNCHANGED <<insVars, reqVars, fnVars, audio_buffer, blocks_captured,
                   emitted, chunk_samples, open_errors,
                   ordVars>>

\* state.full_transcript is non-empty
HasTranscript(s) == Len(transcript_segments[s]) > 0

\* "if self.config.enable_final_sync and self.state.full_transcript"
WantsFinalize(s) == config[s].enable_final_sync /\ HasTranscript(s)

\* build the result; run _finalize_lead up to its await of
\* asyncio.to_thread(self.odoo.create_lead, ...), or, when the summarizer or
\* the extractor raises, catch it into result["lead"] = {"error": ...};
\* without finalization go straight to COMPLETED
FinalizeFaults == {"none", "raise"}

StopFinalize(c, fault) ==
    /\ pc[c] = "stop_finalize"
    /\ CanRun(c)
    /\ LET s == callSess[c] IN
       IF WantsFinalize(s)
         THEN /\ finalize_runs' = [finalize_runs EXCEPT ![s] = @ + 1]
              /\ finalized' = [finalized EXCEPT ![c] = TRUE]
              /\ IF fault = "none"
                   THEN /\ crm_calls' = [crm_calls EXCEPT ![s] = @ + 1]
                        /\ result' = [result EXCEPT ![c] = Res("ok", TRUE, "ok")]
                        /\ Goto(c, "stop_wait_crm", NoCall)
                        /\ UNCHANGED <<status, loop_queue, notified>>
                   ELSE /\ SetStatus(s, "completed")
                        /\ StopReturn(c, Res("ok", TRUE, "error"))
                        /\ UNCHANGED crm_calls
         ELSE /\ fault = "none"
              /\ SetStatus(s, "completed")
              /\ StopReturn(c, Res("ok", HasTranscript(s), "none"))
              /\ UNCHANGED <<finalize_runs, finalized, crm_calls>>
    /\ UNCHANGED <<config, capture_service, capture_running, insight_task,
                   face_task, audio_thread, callbacks, transcript_segments,
                   audio_chunks_processed, chunks_submitted, gemini_calls,
                   globVars, session_websockets, broken, delivered,
                   kind, callSess, entry, persisted>>
    /\ UNCHANGED thrVars
    /\ UNCHANGED fanVars
    /\ UNCHANGED auxVars

\* create_lead has returned or raised in its thread (a failure is logged and
\* leaves lead_id None); _finalize_lead returns, then _set_status(COMPLETED)
StopWaitCrm(c) ==
    /\ pc[c] = "stop_wait_crm"
    /\ CanRun(c)
    /\ SetStatus(callSess[c], "completed")
    /\ StopReturn(c, result[c])
    /\ UNCHANGED <<config, capture_service, capture_running, insight_task,
                   face_task, audio_thread, callbacks, transcript_segments,
                   audio_chunks_processed, chunks_submitted, gemini_calls,
                   globVars, session_websockets, broken, delivered,
                   kind, callSess, entry, persisted, finalized,
                   finalize_runs, crm_calls>>
    /\ UNCHANGED thrVars
    /\ UNCHANGED fanVars
    /\ UNCHANGED auxVars


\* ===================================================== control surface
\* POST /start-session -> start_new_session(): stop the previous session if
\* it is running, else go on to drop the reference and create the new one.
\* A request is followed as long as it can stop a session or create one.
SnsBegin(c, limit) ==
    /\ FreeSlot(c)
    /\ loopOwner = NoCall
    /\ kind' = [kind EXCEPT ![c] = "start_session"]
    /\ IF active_session # NoSession /\ IsRunning(active_session)
         THEN /\ callSess' = [callSess EXCEPT ![c] = active_session]
              /\ entry' = [entry EXCEPT ![c] = status[active_session]]
              /\ Goto(c, "stop_enter", c)
         ELSE /\ created < limit
              /\ UNCHANGED <<callSess, entry>>
              /\ Goto(c, "sns_create", c)
    /\ UNCHANGED <<sessVars, globVars, hubVars, result, persisted, finalized,
                   finalize_runs, crm_calls, notified>>
    /\ UNCHANGED thrVars
    /\ UNCHANGED fanVars
    /\ UNCHANGED auxVars

\* "_active_session = None; _active_session = LiveAssistantSession(config)"
SnsCreate(c, cfg, limit) ==
    /\ pc[c] = "sns_create"
    /\ CanRun(c)
    /\ created < limit
    /\ created' = created + 1
    /\ active_session' = created + 1
    /\ config' = [config EXCEPT ![created + 1] = cfg]
    /\ callSess' = [callSess EXCEPT ![c] = created + 1]
    /\ Goto(c, "start_enter", c)
    /\ UNCHANGED <<status, capture_service, capture_running, insight_task,
                   face_task, audio_thread, callbacks, transcript_segments,
                   audio_chunks_processed, chunks_submitted, gemini_calls,
                   hubVars, kind, result, ghostVars>>
    /\ UNCHANGED thrVars
    /\ UNCHANGED fanVars
    /\ UNCHANGED auxVars

\* start_session after start_new_session has returned: session.set_callbacks
\* registers the broadcast_* observers, then the handler answers "started"
SetCallbacks(c) ==
    /\ pc[c] = "set_callbacks"
    /\ CanRun(c)
    /\ callbacks' = [callbacks EXCEPT ![callSess[c]] = TRUE]
    /\ result' = [result EXCEPT ![c].http = "started"]
    /\ Goto(c, "done", NoCall)
    /\ UNCHANGED <<status, config, capture_service, capture_running,
                   insight_task, face_task, audio_thread, transcript_segments,
                   audio_chunks_processed, chunks_submitted, gemini_calls,
                   globVars, hubVars, kind, callSess, ghostVars>>
    /\ UNCHANGED thrVars
    /\ UNCHANGED fanVars
    /\ UNCHANGED auxVars

\* POST /stop-session -> stop_current_session(): None without a session;
\* else take the session, clear the global and stop it if it is RUNNING or
\* STARTING, else return {"status": "not_running"}
ScsBegin(c) ==
    /\ FreeSlot(c)
    /\ loopOwner = NoCall
    /\ kind' = [kind EXCEPT ![c] = "stop_session"]
    /\ IF active_session = NoSession
         THEN /\ result' = [result EXCEPT ![c] =
                       [Res("none", FALSE, "none") EXCEPT !.http = "not_running"]]
              /\ Goto(c, "done", NoCall)
              /\ UNCHANGED <<callSess, active_session, entry>>
         ELSE /\ callSess' = [callSess EXCEPT ![c] = active_session]
              /\ entry' = [entry EXCEPT ![c] = status[active_session]]
              /\ active_session' = NoSession
              /\ IF IsRunning(active_session) \/ status[active_session] = "starting"
                   THEN /\ Goto(c, "stop_enter", c)
                        /\ UNCHANGED result
                   ELSE /\ result' = [result EXCEPT ![c] =
                                         Res("not_running", FALSE, "none")]
                        /\ Goto(c, "persist", NoCall)
    /\ UNCHANGED <<sessVars, created, hubVars, persisted, finalized,
                   finalize_runs, crm_calls, notified>>
    /\ UNCHANGED thrVars
    /\ UNCHANGED fanVars
    /\ UNCHANGED auxVars

\* the handler saves every result that is not None
PersistsResult(res) == res.r # "none"

\* stop_session after stop_current_session returned a result: create and
\* update the session row, save battlecards / entities / lead; when
\* result["transcript"] is non-empty score the sentiment and call
\* OdooClient.create_lead; any failure is logged; answer "completed"
PersistOutcomes == {"ok", "db_fail"}

Persist(c, outcome) ==
    /\ pc[c] = "persist"
    /\ CanRun(c)
    /\ LET s == callSess[c]
           writes == PersistsResult(result[c]) /\ outcome = "ok" IN
       /\ persisted' = [persisted EXCEPT ![c] = writes]
       /\ crm_calls' = [crm_calls EXCEPT ![s] =
                          IF writes /\ result[c].transcript THEN @ + 1 ELSE @]
    /\ result' = [result EXCEPT ![c].http = "completed"]
    /\ Goto(c, "done", NoCall)
    /\ UNCHANGED <<sessVars, globVars, hubVars, kind, callSess, entry,
                   finalized, finalize_runs, notified>>
    /\ UNCHANGED thrVars
    /\ UNCHANGED fanVars
    /\ UNCHANGED auxVars

\* the status of the session created last, dropped or not
get_session_status_Last == IF created = 0 THEN "idle" ELSE status[created]

\* GET /session-status: "status" of the answer
get_session_status == IF active_session = NoSession THEN "idle"
                      ELSE status[active_session]

\* POST /reset-session -> force_reset_session()
ForceReset ==
    /\ loopOwner = NoCall
    /\ IF active_session # NoSession /\ capture_service[active_session]
         THEN capture_running' = [capture_running EXCEPT ![active_session] = FALSE]
         ELSE UNCHANGED capture_running
    /\ active_session' = NoSession
    /\ UNCHANGED <<status, config, capture_service, insight_task, face_task,
                   audio_thread, callbacks, transcript_segments,
                   audio_chunks_processed, chunks_submitted, gemini_calls,
                   created, hubVars, callVars, ghostVars>>
    /\ UNCHANGED thrVars
    /\ UNCHANGED fanVars
    /\ dropped' = IF active_session # NoSession
                   THEN dropped \cup {active_session} ELSE dropped
    /\ UNCHANGED <<quick_hints, detected_entities, battlecards, tk_entities,
                   tk_targets, tk_requests, tk_appended, reqVars, fnVars,
                   capVars, ordVars>>

\* the caller has its answer; the slot takes the next request
Return(c) ==
    /\ pc[c] = "done"
    /\ pc' = [pc EXCEPT ![c] = "idle"]
    /\ kind' = [kind EXCEPT ![c] = "none"]
    /\ callSess' = [callSess EXCEPT ![c] = NoSession]
    /\ result' = [result EXCEPT ![c] = NoResult]
    /\ entry' = [entry EXCEPT ![c] = "none"]
    /\ persisted' = [persisted EXCEPT ![c] = FALSE]
    /\ finalized' = [finalized EXCEPT ![c] = FALSE]
    /\ UNCHANGED <<sessVars, globVars, hubVars, loopOwner, finalize_runs,
                   crm_calls, notified>>
    /\ UNCHANGED thrVars
    /\ UNCHANGED fanVars
    /\ UNCHANGED auxVars

\* ================================================================ texts
\* texts are sequences of characters.  str.strip(): leading and trailing
\* blanks go
RECURSIVE LStrip(_)
LStrip(t) == IF t # <<>> /\ Head(t) = " " THEN LStrip(Tail(t)) ELSE t

RECURSIVE RStrip(_)
RStrip(t) == IF t # <<>> /\ t[Len(t)] = " "
               THEN RStrip(SubSeq(t, 1, Len(t) - 1)) ELSE t

Strip(t) == RStrip(LStrip(t))

\* str.lower() on the letters the sample texts use
LowerChar(ch) == CASE ch = "A" -> "a"
                   [] ch = "M" -> "m"
                   [] ch = "S" -> "s"
                   [] ch = "T" -> "t"
                   [] ch = "W" -> "w"
                   [] OTHER -> ch

Lower(t) == [i \in 1..Len(t) |-> LowerChar(t[i])]

\* phrase in text
Contains(t, p) == \E i \in 0..(Len(t) - Len(p)) :
                     SubSeq(t, i + 1, i + Len(p)) = p

\* ========================================================= insight loop
\* a loop that ends after its first pass
LoopTop_Once(s) == "done"

\* "while self.state.status == SessionStatus.RUNNING": the test at the top of
\* the loop, reached after a tick, a skipped tick or the error back-off
LoopTop(s) == IF status[s] = "running" THEN "active" ELSE "done"

\* status a tick leaves behind when a collaborator raised: the except branch
\* logs and sleeps, the status is not touched
TickFailStatus_Error(st) == "error"
TickFailStatus(st) == st

\* sep.join(parts)
RECURSIVE JoinWith(_, _)
JoinWith(sep, parts) ==
    IF parts = <<>> THEN <<>>
    ELSE IF Len(parts) = 1 THEN Head(parts)
    ELSE Head(parts) \o <<sep>> \o JoinWith(sep, Tail(parts))

\* " ".join(texts)
Join(texts) == JoinWith(" ", texts)

\* SessionState.full_transcript
full_transcript(s) ==
    Join([i \in 1..Len(transcript_segments[s]) |-> transcript_segments[s][i].text])

\* "if not transcript_context or len(transcript_context) < 20: continue"
MinContext == 20
TooShort(s) == Len(full_transcript(s)) < MinContext

\* entities the extractor finds in the runs studied
E_aws == [text |-> <<"A", "W", "S">>, label |-> "organization"]
E_acme == [text |-> <<"A", "c", "m", "e">>, label |-> "organization"]
E_monday == [text |-> <<"M", "o", "n", "d", "a", "y">>, label |-> "date"]
EntitySamples == {<<>>, <<E_aws, E_acme, E_monday>>}

known_competitors ==
    {
     <<"a", "w", "s">>,
     <<"a", "m", "a", "z", "o", "n">>,
     <<"s", "a", "l", "e", "s", "f", "o", "r", "c", "e">>,
     <<"d", "a", "t", "a", "d", "o", "g">>,
     <<"m", "i", "c", "r", "o", "s", "o", "f", "t">>,
     <<"h", "u", "b", "s", "p", "o", "t">>,
     <<"s", "l", "a", "c", "k">>,
     <<"g", "o", "o", "g", "l", "e">>,
     <<"o", "r", "a", "c", "l", "e">>,
     <<"s", "a", "p">>,
     <<"z", "e", "n", "d", "e", "s", "k">>,
     <<"f", "r", "e", "s", "h", "w", "o", "r", "k", "s">>,
     <<"z", "o", "h", "o">>,
     <<"m", "o", "n", "d", "a", "y">>,
     <<"a", "s", "a", "n", "a">>,
     <<"j", "i", "r", "a">>,
     <<"a", "t", "l", "a", "s", "s", "i", "a", "n">>
    }

\* GLiNERService.detect_competitors: the texts of the organization, product
\* and service entities whose name contains, or is contained in, a known name
RECURSIVE detect_competitors(_)
detect_competitors(entities) ==
    IF entities = <<>> THEN <<>>
    ELSE LET e == Head(entities)
             name_lower == Lower(e.text)
             rest == detect_competitors(Tail(entities))
         IN IF /\ e.label \in {"organization", "product", "service"}
               /\ \E comp \in known_competitors :
                     Contains(name_lower, comp) \/ Contains(comp, name_lower)
              THEN <<e.text>> \o rest
              ELSE rest

\* what generate_sales_hints answers in the runs studied
R_plain == [quick_hints |-> <<"ask about budget">>, research_topics |-> <<>>]
R_topics == [quick_hints |-> <<"mention compliance">>,
             research_topics |-> << <<"g", "d", "p", "r">>,
                                    <<"p", "r", "i", "c", "i", "n", "g">> >>]
HintResults == {R_plain, R_topics}

\* places where the tick can raise before it updates the state
ExtractFaults == {"none", "raise"}
HintFaults == {"none", "raise"}

Range(q) == {q[i] : i \in 1..Len(q)}

\* list(set(...)): the elements once, in an order the set chooses
Orderings(S) ==
    {q \in [1..Cardinality(S) -> S] : \A i, j \in 1..Cardinality(S) : q[i] = q[j] => i = j}

\* the slice that keeps every target
FirstTwo_All(l) == l

\* "[:2]"
FirstTwo(l) == SubSeq(l, 1, IF Len(l) < 2 THEN Len(l) ELSE 2)

\* "targets = list(set(competitors + research_topics))[:2]": the lists the
\* expression can produce
Targets(competitors, research_topics) ==
    {FirstTwo(l) : l \in Orderings(Range(competitors \o research_topics))}

\* [bc.get("competitor") for bc in self.state.battlecards]
Competitors(cards) == {cards[i].competitor : i \in 1..Len(cards)}

\* top of "for target in targets": targets that have a battlecard are passed
\* over, the loop stops at the first one that has none
RECURSIVE SkipKnown(_, _)
SkipKnown(targets, cards) ==
    IF targets # <<>> /\ Head(targets) \in Competitors(cards)
      THEN SkipKnown(Tail(targets), cards)
      ELSE targets

\* a failed target ends the tick's loop over the targets
AfterTarget_Abort(targets) == <<>>

\* the for loop goes on to the target after the one in hand
AfterTarget(targets) == Tail(targets)

\* battlecard["web_research"]: the findings, or the empty fallback of the
\* except branch
Battlecard(target, web) ==
    [competitor |-> target,
     web_research |-> IF web = "ok" THEN "findings" ELSE "none"]

\* states of the task in which a cancel() reaches it at an await
InsightPending == {"active", "hints", "card", "web", "backoff"}

\* the for loop with `todo` left and the events `q` scheduled so far: ask
\* for the battlecard of the next target, or, past the loop, call the hints
\* and entities observers and go to the top of the while loop
Advance(s, todo, q) ==
    IF todo = <<>>
      THEN /\ insight_task' = [insight_task EXCEPT ![s] = LoopTop(s)]
           /\ tk_targets' = [tk_targets EXCEPT ![s] = <<>>]
           /\ loop_queue' = IF callbacks[s]
                              THEN Schedule(Schedule(q, Msg("hints")),
                                            Msg("entities"))
                              ELSE q
           /\ UNCHANGED tk_requests
      ELSE /\ insight_task' = [insight_task EXCEPT ![s] = "card"]
           /\ tk_targets' = [tk_targets EXCEPT ![s] = todo]
           /\ loop_queue' = q
           /\ tk_requests' = [tk_requests EXCEPT ![s] = @ + 1]

\* the sleep is over: "continue" on a short transcript; else extract the
\* entities and call generate_sales_hints, or go to the except branch when
\* the extractor raises. A session makes at most `limit` hint calls.
InsightWake(s, fault, e, limit) ==
    /\ insight_task[s] = "active"
    /\ loopOwner = NoCall
    /\ IF TooShort(s)
         THEN /\ insight_task' = [insight_task EXCEPT ![s] = LoopTop(s)]
              /\ UNCHANGED <<status, tk_entities, tk_requests, tk_appended>>
         ELSE /\ gemini_calls[s] < limit
              /\ IF fault = "raise"
                   THEN /\ insight_task' = [insight_task EXCEPT ![s] = "backoff"]
                        /\ status' = [status EXCEPT ![s] = TickFailStatus(@)]
                        /\ UNCHANGED <<tk_entities, tk_requests, tk_appended>>
                   ELSE /\ insight_task' = [insight_task EXCEPT ![s] = "hints"]
                        /\ tk_entities' = [tk_entities EXCEPT ![s] = e]
                        /\ tk_requests' = [tk_requests EXCEPT ![s] = 0]
                        /\ tk_appended' = [tk_appended EXCEPT ![s] = 0]
                        /\ UNCHANGED status
    /\ UNCHANGED <<config, capture_service, capture_running, face_task,
                   audio_thread, callbacks, transcript_segments,
                   audio_chunks_processed, chunks_submitted, gemini_calls,
                   globVars, hubVars, callVars, ghostVars>>
    /\ UNCHANGED <<quick_hints, detected_entities, battlecards, tk_targets,
                   dropped, reqVars, fnVars,
                   capVars, ordVars>>
    /\ UNCHANGED thrVars
    /\ UNCHANGED fanVars

\* generate_sales_hints returns `r` or raises.  On a result: update
\* quick_hints, detected_entities and gemini_calls, pick the targets and run
\* the for loop up to its first await.  The calls are counted up to `upto`.
InsightHints(s, fault, r, upto) ==
    /\ insight_task[s] = "hints"
    /\ loopOwner = NoCall
    /\ tk_entities' = [tk_entities EXCEPT ![s] = <<>>]
    /\ IF fault = "raise"
         THEN /\ insight_task' = [insight_task EXCEPT ![s] = "backoff"]
              /\ status' = [status EXCEPT ![s] = TickFailStatus(@)]
              /\ UNCHANGED <<quick_hints, detected_entities, gemini_calls,
                             tk_targets, tk_requests, loop_queue>>
         ELSE /\ quick_hints' = [quick_hints EXCEPT ![s] = r.quick_hints]
              /\ detected_entities' = [detected_entities EXCEPT ![s] = tk_entities[s]]
              /\ gemini_calls' = [gemini_calls EXCEPT ![s] =
                                    IF @ < upto THEN @ + 1 ELSE @]
              /\ \E targets \in Targets(detect_competitors(tk_entities[s]),
                                        r.research_topics) :
                    Advance(s, SkipKnown(targets, battlecards[s]), loop_queue)
              /\ UNCHANGED status
    /\ UNCHANGED <<config, capture_service, capture_running, face_task,
                   audio_thread, callbacks, transcript_segments,
                   audio_chunks_processed, chunks_submitted, globVars,
                   session_websockets, broken, delivered, callVars, ghostVars>>
    /\ UNCHANGED <<battlecards, tk_appended, dropped, reqVars, fnVars,
                   capVars, ordVars>>
    /\ UNCHANGED thrVars
    /\ UNCHANGED fanVars

\* get_battlecard returns the base card or raises.  With the card the tick
\* goes on to the web research; "except Exception" logs the error and the
\* for loop goes on
CardOutcomes == {"ok", "raise"}

InsightCard(s, outcome) ==
    /\ insight_task[s] = "card"
    /\ loopOwner = NoCall
    /\ IF outcome = "ok"
         THEN /\ insight_task' = [insight_task EXCEPT ![s] = "web"]
              /\ UNCHANGED <<tk_targets, tk_requests, loop_queue>>
         ELSE Advance(s, SkipKnown(AfterTarget(tk_targets[s]), battlecards[s]),
                      loop_queue)
    /\ UNCHANGED <<status, config, capture_service, capture_running, face_task,
                   audio_thread, callbacks, transcript_segments,
                   audio_chunks_processed, chunks_submitted, gemini_calls,
                   globVars, session_websockets, broken, delivered,
                   callVars, ghostVars>>
    /\ UNCHANGED <<quick_hints, detected_entities, battlecards, tk_entities,
                   tk_appended, dropped, reqVars, fnVars,
                   capVars, ordVars>>
    /\ UNCHANGED thrVars
    /\ UNCHANGED fanVars

\* the web research ends, with findings or in its except branch: the card is
\* appended, the battlecard observer is called and the for loop goes on
WebOutcomes == {"ok", "raise"}

InsightWeb(s, outcome) ==
    /\ insight_task[s] = "web"
    /\ loopOwner = NoCall
    /\ LET cards == Append(battlecards[s], Battlecard(Head(tk_targets[s]), outcome))
       IN /\ battlecards' = [battlecards EXCEPT ![s] = cards]
          /\ tk_appended' = [tk_appended EXCEPT ![s] = @ + 1]
          /\ Advance(s, SkipKnown(AfterTarget(tk_targets[s]), cards),
                     IF callbacks[s] THEN Schedule(loop_queue, Msg("battlecard"))
                                     ELSE loop_queue)
    /\ UNCHANGED <<status, config, capture_service, capture_running, face_task,
                   audio_thread, callbacks, transcript_segments,
                   audio_chunks_processed, chunks_submitted, gemini_calls,
                   globVars, session_websockets, broken, delivered,
                   callVars, ghostVars>>
    /\ UNCHANGED <<quick_hints, detected_entities, tk_entities, dropped,
                   reqVars, fnVars,
                   capVars, ordVars>>
    /\ UNCHANGED thrVars
    /\ UNCHANGED fanVars

\* the sleep(1.0) of the except branch is over
InsightBackoffDone(s) ==
    /\ insight_task[s] = "backoff"
    /\ loopOwner = NoCall
    /\ insight_task' = [insight_task EXCEPT ![s] = LoopTop(s)]
    /\ UNCHANGED <<status, config, capture_service, capture_running, face_task,
                   audio_thread, callbacks, transcript_segments,
                   audio_chunks_processed, chunks_submitted, gemini_calls,
                   globVars, hubVars, callVars, ghostVars>>
    /\ UNCHANGED thrVars
    /\ UNCHANGED fanVars
    /\ UNCHANGED auxVars

\* CancelledError reaches the loop at the await it is suspended in: "except
\* asyncio.CancelledError: break", or, from the sleep of the except branch,
\* out of the coroutine
InsightCancelled(s) ==
    /\ insight_task[s] = "cancelling"
    /\ loopOwner = NoCall
    /\ insight_task' = [insight_task EXCEPT ![s] = "done"]
    /\ tk_entities' = [tk_entities EXCEPT ![s] = <<>>]
    /\ tk_targets' = [tk_targets EXCEPT ![s] = <<>>]
    /\ UNCHANGED <<status, config, capture_service, capture_running, face_task,
                   audio_thread, callbacks, transcript_segments,
                   audio_chunks_processed, chunks_submitted, gemini_calls,
                   globVars, hubVars, callVars, ghostVars>>
    /\ UNCHANGED <<quick_hints, detected_entities, battlecards, tk_requests,
                   tk_appended, dropped, reqVars, fnVars,
                   capVars, ordVars>>
    /\ UNCHANGED thrVars
    /\ UNCHANGED fanVars

\* ===================================================== POST /battlecard
\* competitor names the requests carry
RequestNames == {E_aws.text}

\* the handler up to "await gemini.get_battlecard(...)"
CardRequest(name, limit) ==
    /\ rq_pc = "idle"
    /\ loopOwner = NoCall
    /\ rq_count < limit
    /\ rq_pc' = "card"
    /\ rq_name' = name
    /\ rq_count' = rq_count + 1
    /\ UNCHANGED <<sessVars, thrVars, globVars, hubVars, fanVars, callVars,
                   ghostVars, insVars, fnVars,
                   capVars, ordVars>>

\* get_battlecard returns the card, or raises and the request ends with
\* status 500
CardRequestBase(outcome) ==
    /\ rq_pc = "card"
    /\ loopOwner = NoCall
    /\ rq_pc' = IF outcome = "ok" THEN "web" ELSE "idle"
    /\ rq_name' = IF outcome = "ok" THEN rq_name ELSE <<>>
    /\ UNCHANGED <<sessVars, thrVars, globVars, hubVars, fanVars, callVars,
                   ghostVars, insVars, rq_count, fnVars,
                   capVars, ordVars>>

\* the web research ends, with findings or in its except branch: "Save to
\* session if active" appends the card and calls the battlecard observer
CardRequestWeb(outcome) ==
    /\ rq_pc = "web"
    /\ loopOwner = NoCall
    /\ IF active_session # NoSession
         THEN /\ battlecards' = [battlecards EXCEPT ![active_session] =
                                   Append(@, Battlecard(rq_name, outcome))]
              /\ loop_queue' = IF callbacks[active_session]
                                 THEN Schedule(loop_queue, Msg("battlecard"))
                                 ELSE loop_queue
         ELSE UNCHANGED <<battlecards, loop_queue>>
    /\ rq_pc' = "idle"
    /\ rq_name' = <<>>
    /\ UNCHANGED <<sessVars, thrVars, globVars, session_websockets, broken,
                   delivered, fanVars, callVars, ghostVars, quick_hints,
                   detected_entities, tk_entities, tk_targets, tk_requests,
                   tk_appended, dropped, rq_count, fnVars,
                   capVars, ordVars>>

\* ================================================= face sentiment loop
\* "with mss.mss() as sct" sits outside the try of face_sentiment_loop: when
\* it raises the task ends with that exception
FaceFail(s) ==
    /\ face_task[s] = "active"
    /\ loopOwner = NoCall
    /\ face_task' = [face_task EXCEPT ![s] = "failed"]
    /\ UNCHANGED <<status, config, capture_service, capture_running,
                   insight_task, audio_thread, callbacks, transcript_segments,
                   audio_chunks_processed, chunks_submitted, gemini_calls,
                   globVars, hubVars, callVars, ghostVars>>
    /\ UNCHANGED thrVars
    /\ UNCHANGED fanVars
    /\ UNCHANGED auxVars

FaceCancelled(s) ==
    /\ face_task[s] = "cancelling"
    /\ loopOwner = NoCall
    /\ face_task' = [face_task EXCEPT ![s] = "done"]
    /\ UNCHANGED <<status, config, capture_service, capture_running,
                   insight_task, audio_thread, callbacks, transcript_segments,
                   audio_chunks_processed, chunks_submitted, gemini_calls,
                   globVars, hubVars, callVars, ghostVars>>
    /\ UNCHANGED thrVars
    /\ UNCHANGED fanVars
    /\ UNCHANGED auxVars

\* ================================================= audio capture thread
\* a loop that ends at the first device error
AudioLoopTop_GiveUp(running, ok) ==
    IF running /\ ok THEN "streaming" ELSE "ended"

\* where one pass of "while self._running: try: ... except Exception:" takes
\* the thread: out of the loop, to the sleep that keeps the stream, or to the
\* 2 s back-off of the except branch
AudioLoopTop(running, ok) ==
    IF ~running THEN "ended" ELSE IF ok THEN "streaming" ELSE "backoff"

\* top of "while self._running": leave when capture is stopped, else reset
\* the buffer and open the device; an error goes to the 2 s back-off.
\* `upto`: the device errors of a capturer are counted up to this number
AudioOpen(s, ok, upto) ==
    /\ audio_thread[s] = "opening"
    /\ audio_thread' = [audio_thread EXCEPT ![s] =
                          AudioLoopTop(capture_running[s], ok)]
    /\ open_errors' = [open_errors EXCEPT ![s] =
                         IF capture_running[s] /\ ~ok /\ @ < upto THEN @ + 1 ELSE @]
    /\ audio_buffer' = [audio_buffer EXCEPT ![s] =
                          IF capture_running[s] THEN <<>> ELSE @]
    /\ audio_stream' = [audio_stream EXCEPT ![s] =
                          IF capture_running[s] /\ ok THEN "open" ELSE @]
    /\ UNCHANGED <<status, config, capture_service, capture_running,
                   insight_task, face_task, callbacks, transcript_segments,
                   audio_chunks_processed, chunks_submitted, gemini_calls,
                   globVars, hubVars, callVars, ghostVars>>
    /\ UNCHANGED thrVars
    /\ UNCHANGED fanVars
    /\ UNCHANGED <<insVars, reqVars, fnVars, blocks_captured, emitted,
                   chunk_samples, cap_stopped,
                   ordVars>>

\* the back-off is over, or the stream went inactive / capture was stopped:
\* the finally branch closes the stream and the loop goes round
AudioAgain(s) ==
    /\ audio_thread[s] \in {"backoff", "streaming"}
    /\ audio_thread' = [audio_thread EXCEPT ![s] = "opening"]
    /\ audio_stream' = [audio_stream EXCEPT ![s] = "none"]
    /\ UNCHANGED <<status, config, capture_service, capture_running,
                   insight_task, face_task, callbacks, transcript_segments,
                   audio_chunks_processed, chunks_submitted, gemini_calls,
                   globVars, hubVars, callVars, ghostVars>>
    /\ UNCHANGED thrVars
    /\ UNCHANGED fanVars
    /\ UNCHANGED <<insVars, reqVars, fnVars, audio_buffer, blocks_captured,
                   emitted, chunk_samples, cap_stopped, open_errors,
                   ordVars>>

\* a chunk is emitted once the buffer holds more than a chunk
ChunkFull_Over(total_samples, n) == total_samples > n

\* "if total_samples >= chunk_samples"
ChunkFull(total_samples, n) == total_samples >= n

\* audio_callback with a block that leaves the buffer short of a chunk: the
\* block is appended
AudioCallback(s) ==
    /\ audio_thread[s] = "streaming"
    /\ audio_stream[s] = "open"
    /\ blocks_captured[s] < MaxBlocks
    /\ ~ChunkFull(Len(audio_buffer[s]) + 1, chunk_samples)
    /\ audio_buffer' = [audio_buffer EXCEPT ![s] = Append(@, blocks_captured[s] + 1)]
    /\ blocks_captured' = [blocks_captured EXCEPT ![s] = @ + 1]
    /\ UNCHANGED <<sessVars, thrVars, globVars, hubVars, fanVars, callVars,
                   ghostVars, insVars, reqVars, fnVars, audio_stream, emitted,
                   chunk_samples, cap_stopped, open_errors,
                   ordVars>>

\* ================================================= transcription threads
\* one character, four times or more
IsRepeated_Four(t) == Len(t) >= 4 /\ \A i \in 1..Len(t) : t[i] = t[1]

\* re.match(r'^(.)\1{4,}$', text): one character, five times or more
IsRepeated(t) == Len(t) >= 5 /\ \A i \in 1..Len(t) : t[i] = t[1]

hallucination_phrases ==
    {
     <<"t", "h", "a", "n", "k", " ", "y", "o", "u", " ", "f", "o", "r", " ", "w", "a", "t", "c", "h", "i", "n", "g">>,
     <<"t", "h", "a", "n", "k", "s", " ", "f", "o", "r", " ", "w", "a", "t", "c", "h", "i", "n", "g">>,
     <<"p", "l", "e", "a", "s", "e", " ", "s", "u", "b", "s", "c", "r", "i", "b", "e">>,
     <<"l", "i", "k", "e", " ", "a", "n", "d", " ", "s", "u", "b", "s", "c", "r", "i", "b", "e">>,
     <<"s", "e", "e", " ", "y", "o", "u", " ", "n", "e", "x", "t", " ", "t", "i", "m", "e">>,
     <<"[", "m", "u", "s", "i", "c", "]">>,
     <<"(", "m", "u", "s", "i", "c", ")">>,
     <<"s", "u", "b", "t", "i", "t", "l", "e", " ", "b", "y">>,
     <<"c", "o", "p", "y", "r", "i", "g", "h", "t">>,
     <<"a", "l", "l", " ", "r", "i", "g", "h", "t", "s", " ", "r", "e", "s", "e", "r", "v", "e", "d">>
    }

\* is_hallucination(text)
is_hallucination(text) ==
    LET t == Strip(text) IN
      \/ t = <<>>
      \/ Len(t) < 2
      \/ IsRepeated(t)
      \/ \E p \in hallucination_phrases : Contains(Lower(t), p)

\* texts the speech model produces in the runs studied
T_empty == <<>>
T_blank == <<" ">>
T_short == <<"a">>
T_ok == <<"o", "k">>
T_padded == <<" ", "h", "i", " ">>
T_rep5 == <<"!", "!", "!", "!", "!">>
T_rep4 == <<".", ".", ".", ".">>
T_music == <<"[", "M", "u", "s", "i", "c", "]">>
T_thanks == <<"T", "h", "a", "n", "k", "s", " ", "f", "o", "r", " ", "w", "a", "t", "c", "h", "i", "n", "g", "!">>
T_pitch == <<"w", "e", " ", "m", "o", "v", "e", "d", " ", "t", "o", " ", "A", "W", "S", " ", "l", "a", "s", "t", " ", "y", "e", "a", "r">>

\* what transcribe_with_speakers returns for a chunk: the texts of its
\* segments, each stripped
DiarizedSamples ==
    {<<>>, <<T_ok>>, <<T_ok, T_padded>>, <<T_blank, T_short>>,
     <<T_rep5, T_ok>>, <<T_rep4>>, <<T_music>>, <<T_ok, T_thanks>>}

\* what transcribe returns for a chunk, before its strip
PlainSamples == {T_empty, T_blank, T_padded, T_music}

\* the segments of chunk k with these texts
Segs(k, texts) == [i \in 1..Len(texts) |-> [chunk |-> k, text |-> Strip(texts[i])]]

\* every segment is kept
ValidSegments_All(segs) == segs

\* the loop over segments that keeps the valid ones
RECURSIVE ValidSegments(_)
ValidSegments(segs) ==
    IF segs = <<>> THEN <<>>
    ELSE LET text == Strip(Head(segs).text)
             rest == ValidSegments(Tail(segs))
         IN IF text # <<>> /\ ~is_hallucination(text)
              THEN <<Head(segs)>> \o rest ELSE rest

\* is_silent_audio: rms < 0.01
SilenceThreshold == 10

is_silent_audio_Off(rms) == FALSE

is_silent_audio(rms) == rms < SilenceThreshold

\* RMS levels of the chunks in the runs studied
RmsSamples == {0, 9, 10, 300}

\* the new segments put before those of chunks submitted later
Extend_BySubmission(old, segs) ==
    LET earlier == {i \in 1..Len(old) : old[i].chunk < segs[1].chunk}
        n == Cardinality(earlier)
    IN IF \A i \in 1..Len(old) : (i \in earlier) = (i <= n)
         THEN SubSeq(old, 1, n) \o segs \o SubSeq(old, n + 1, Len(old))
         ELSE old \o segs

\* the new segments put in front of the list
Extend_Front(old, segs) == segs \o old

\* list.extend(segments)
Extend(old, segs) == old \o segs

\* the next thread to be created, while fewer than `limit` were
FreeThread(k, limit) ==
    /\ k <= limit
    /\ th_pc[k] = "idle"
    /\ \A j \in Threads : j < k => th_pc[j] # "idle"

\* the thread function returns
ThreadEnds(k) == th_pc' = [th_pc EXCEPT ![k] = "done"]

\* audio_callback with the block that fills the buffer: the block is
\* appended, _process_audio_buffer emits the buffer as a chunk,
\* _handle_audio_chunk starts a thread for it, and the buffer is reset
ChunkSubmit(s, k, rms, limit) ==
    /\ audio_thread[s] = "streaming"
    /\ audio_stream[s] = "open"
    /\ config[s].capture_mode = "local"
    /\ FreeThread(k, limit)
    /\ ChunkFull(Len(audio_buffer[s]) + 1, chunk_samples)
    /\ emitted' = [emitted EXCEPT ![s] =
                     Append(@, Append(audio_buffer[s], blocks_captured[s] + 1))]
    /\ audio_buffer' = [audio_buffer EXCEPT ![s] = <<>>]
    /\ blocks_captured' = [blocks_captured EXCEPT ![s] = @ + 1]
    /\ chunks_submitted' = [chunks_submitted EXCEPT ![s] = @ + 1]
    /\ th_pc' = [th_pc EXCEPT ![k] = "start"]
    /\ th_kind' = [th_kind EXCEPT ![k] = "local"]
    /\ th_sess' = [th_sess EXCEPT ![k] = s]
    /\ th_rms' = [th_rms EXCEPT ![k] = rms]
    /\ UNCHANGED <<status, config, capture_service, capture_running,
                   insight_task, face_task, audio_thread, callbacks,
                   transcript_segments, audio_chunks_processed, gemini_calls,
                   th_valid, th_read, th_invoked, th_published, th_failed,
                   completion, globVars, hubVars, callVars, ghostVars>>
    /\ UNCHANGED th_raw
    /\ UNCHANGED fanVars
    /\ UNCHANGED <<insVars, reqVars, fnVars, audio_stream, chunk_samples,
                   cap_stopped, open_errors,
                   ordVars>>

\* transcribe_in_background: the chunk is silent
LocalSilent(k) ==
    /\ th_pc[k] = "start" /\ th_kind[k] = "local"
    /\ is_silent_audio(th_rms[k])
    /\ ThreadEnds(k)
    /\ UNCHANGED <<sessVars, th_kind, th_sess, th_rms, th_valid, th_read,
                   th_invoked, th_published, th_failed, completion,
                   globVars, hubVars, callVars, ghostVars>>
    /\ UNCHANGED th_raw
    /\ UNCHANGED fanVars
    /\ UNCHANGED auxVars

\* transcribe_in_background: writing the temp file raises (no transcriber
\* was called) or a transcriber raises; the except branch logs
LocalFaults == {{}, {"diarize"}, {"diarize", "plain"}}

\* the except branch abandons the session
LocalFailStatus_Error(st) == "error"

\* the except branch prints the error and the traceback: the status stays
LocalFailStatus(st) == st

LocalFail(k, invoked) ==
    /\ th_pc[k] = "start" /\ th_kind[k] = "local"
    /\ ~is_silent_audio(th_rms[k])
    /\ th_invoked' = [th_invoked EXCEPT ![k] = invoked]
    /\ th_failed' = [th_failed EXCEPT ![k] = TRUE]
    /\ status' = [status EXCEPT ![th_sess[k]] = LocalFailStatus(@)]
    /\ ThreadEnds(k)
    /\ UNCHANGED <<config, capture_service, capture_running,
                   insight_task, face_task, audio_thread, callbacks,
                   transcript_segments, audio_chunks_processed,
                   chunks_submitted, gemini_calls,
                   th_kind, th_sess, th_rms, th_valid, th_read,
                   th_published, completion,
                   globVars, hubVars, callVars, ghostVars>>
    /\ UNCHANGED th_raw
    /\ UNCHANGED fanVars
    /\ UNCHANGED auxVars

\* transcribe_in_background: the transcriber answers d, and p when the plain
\* transcription is asked; the valid segments are kept
LocalTranscribe(k, d, p) ==
    /\ th_pc[k] = "start" /\ th_kind[k] = "local"
    /\ ~is_silent_audio(th_rms[k])
    /\ LET segments == IF d # <<>> THEN Segs(k, d)
                       ELSE IF Strip(p) # <<>> THEN Segs(k, <<p>>)
                       ELSE <<>>
           valid_segments == ValidSegments(segments)
       IN /\ th_invoked' = [th_invoked EXCEPT ![k] =
                              IF d # <<>> THEN {"diarize"} ELSE {"diarize", "plain"}]
          /\ th_raw' = [th_raw EXCEPT ![k] = segments]
          /\ th_valid' = [th_valid EXCEPT ![k] = valid_segments]
          /\ th_pc' = [th_pc EXCEPT ![k] =
                         IF valid_segments # <<>> THEN "extend" ELSE "done"]
    /\ UNCHANGED <<sessVars, th_kind, th_sess, th_rms, th_read,
                   th_published, th_failed, completion,
                   globVars, hubVars, callVars, ghostVars>>
    /\ UNCHANGED fanVars
    /\ UNCHANGED auxVars

\* /audio-stream received a chunk and starts process_audio_in_background
RemoteSubmit(k, limit) ==
    /\ FreeThread(k, limit)
    /\ th_pc' = [th_pc EXCEPT ![k] = "start"]
    /\ th_kind' = [th_kind EXCEPT ![k] = "remote"]
    /\ UNCHANGED <<sessVars, th_sess, th_rms, th_valid, th_read,
                   th_invoked, th_published, th_failed, completion,
                   globVars, hubVars, callVars, ghostVars>>
    /\ UNCHANGED th_raw
    /\ UNCHANGED fanVars
    /\ UNCHANGED auxVars

\* process_audio_in_background: get_active_session() is None
RemoteNoSession(k) ==
    /\ th_pc[k] = "start" /\ th_kind[k] = "remote"
    /\ active_session = NoSession
    /\ ThreadEnds(k)
    /\ UNCHANGED <<sessVars, th_kind, th_sess, th_rms, th_valid, th_read,
                   th_invoked, th_published, th_failed, completion,
                   globVars, hubVars, callVars, ghostVars>>
    /\ UNCHANGED th_raw
    /\ UNCHANGED fanVars
    /\ UNCHANGED auxVars

\* process_audio_in_background: the transcriber raises; the except branch
\* logs
RemoteFail(k) ==
    /\ th_pc[k] = "start" /\ th_kind[k] = "remote"
    /\ active_session # NoSession
    /\ th_sess' = [th_sess EXCEPT ![k] = active_session]
    /\ th_invoked' = [th_invoked EXCEPT ![k] = {"diarize"}]
    /\ th_failed' = [th_failed EXCEPT ![k] = TRUE]
    /\ ThreadEnds(k)
    /\ UNCHANGED <<sessVars, th_kind, th_rms, th_valid, th_read,
                   th_published, completion,
                   globVars, hubVars, callVars, ghostVars>>
    /\ UNCHANGED th_raw
    /\ UNCHANGED fanVars
    /\ UNCHANGED auxVars

\* process_audio_in_background: the transcriber answers d; every segment is
\* kept
RemoteTranscribe(k, d) ==
    /\ th_pc[k] = "start" /\ th_kind[k] = "remote"
    /\ active_session # NoSession
    /\ th_sess' = [th_sess EXCEPT ![k] = active_session]
    /\ th_invoked' = [th_invoked EXCEPT ![k] = {"diarize"}]
    /\ th_raw' = [th_raw EXCEPT ![k] = Segs(k, d)]
    /\ th_valid' = [th_valid EXCEPT ![k] = Segs(k, d)]
    /\ th_pc' = [th_pc EXCEPT ![k] = IF d # <<>> THEN "extend" ELSE "done"]
    /\ UNCHANGED <<sessVars, th_kind, th_rms, th_read,
                   th_published, th_failed, completion,
                   globVars, hubVars, callVars, ghostVars>>
    /\ UNCHANGED fanVars
    /\ UNCHANGED auxVars

\* transcript_segments.extend(...)
ThreadExtend(k) ==
    /\ th_pc[k] = "extend"
    /\ transcript_segments' = [transcript_segments EXCEPT ![th_sess[k]] =
                                 Extend(@, th_valid[k])]
    /\ completion' = Append(completion, k)
    /\ th_pc' = [th_pc EXCEPT ![k] = "load"]
    /\ UNCHANGED <<status, config, capture_service, capture_running,
                   insight_task, face_task, audio_thread, callbacks,
                   audio_chunks_processed, chunks_submitted, gemini_calls,
                   th_kind, th_sess, th_rms, th_valid, th_read,
                   th_invoked, th_published, th_failed,
                   globVars, hubVars, callVars, ghostVars>>
    /\ UNCHANGED th_raw
    /\ UNCHANGED fanVars
    /\ UNCHANGED auxVars

\* audio_chunks_processed += 1, first half: the attribute is loaded
ThreadCountLoad(k) ==
    /\ th_pc[k] = "load"
    /\ th_read' = [th_read EXCEPT ![k] = audio_chunks_processed[th_sess[k]]]
    /\ th_pc' = [th_pc EXCEPT ![k] = "store"]
    /\ UNCHANGED <<sessVars, th_kind, th_sess, th_rms, th_valid,
                   th_invoked, th_published, th_failed, completion,
                   globVars, hubVars, callVars, ghostVars>>
    /\ UNCHANGED th_raw
    /\ UNCHANGED fanVars
    /\ UNCHANGED auxVars

\* audio_chunks_processed += 1, second half: the sum is stored
ThreadCountStore(k) ==
    /\ th_pc[k] = "store"
    /\ audio_chunks_processed' = [audio_chunks_processed EXCEPT ![th_sess[k]] =
                                    th_read[k] + 1]
    /\ th_pc' = [th_pc EXCEPT ![k] = "publish"]
    /\ UNCHANGED <<status, config, capture_service, capture_running,
                   insight_task, face_task, audio_thread, callbacks,
                   transcript_segments, chunks_submitted, gemini_calls,
                   th_kind, th_sess, th_rms, th_valid, th_read,
                   th_invoked, th_published, th_failed, completion,
                   globVars, hubVars, callVars, ghostVars>>
    /\ UNCHANGED th_raw
    /\ UNCHANGED fanVars
    /\ UNCHANGED auxVars

\* the observers are called when they are registered: the transcript
\* observer, and on the local path the hints observer
ThreadPublish(k) ==
    /\ th_pc[k] = "publish"
    /\ IF callbacks[th_sess[k]]
         THEN /\ loop_queue' =
                   IF th_kind[k] = "local"
                     THEN Schedule(Schedule(loop_queue, Msg("transcript")),
                                   Msg("hints"))
                     ELSE Schedule(loop_queue, Msg("transcript"))
              /\ th_published' = [th_published EXCEPT ![k] = @ + 1]
         ELSE UNCHANGED <<loop_queue, th_published>>
    /\ ThreadEnds(k)
    /\ UNCHANGED <<sessVars, th_kind, th_sess, th_rms, th_valid, th_read,
                   th_invoked, th_failed, completion, globVars,
                   session_websockets, broken, delivered, callVars, ghostVars>>
    /\ UNCHANGED th_raw
    /\ UNCHANGED fanVars
    /\ UNCHANGED auxVars

\* threads of the local capture path: at most `limit` threads, the
\* chunks have their RMS in `levels`, the transcribers fail as in `faults`
\* and answer from `diarized` and `plain`
LocalSteps(limit, levels, faults, diarized, plain) ==
    \/ \E s \in Sessions, k \in Threads, q \in levels : ChunkSubmit(s, k, q, limit)
    \/ \E k \in Threads : LocalSilent(k)
    \/ \E k \in Threads, i \in faults : LocalFail(k, i)
    \/ \E k \in Threads, d \in diarized, p \in plain : LocalTranscribe(k, d, p)

\* threads of the /audio-stream path
RemoteSteps(limit, diarized) ==
    \/ \E k \in Threads : RemoteSubmit(k, limit)
    \/ \E k \in Threads : RemoteNoSession(k)
    \/ \E k \in Threads : RemoteFail(k)
    \/ \E k \in Threads, d \in diarized : RemoteTranscribe(k, d)

\* the steps both kinds of thread take once they have segments to add
AppendSteps ==
    \/ \E k \in Threads : ThreadExtend(k)
    \/ \E k \in Threads : ThreadCountLoad(k)
    \/ \E k \in Threads : ThreadCountStore(k)
    \/ \E k \in Threads : ThreadPublish(k)

\* ====================================================== pure functions
\* texts of up to `n` characters of the alphabet `chars`
TextsUpTo(n, chars) == UNION {[1..m -> chars] : m \in 0..n}

\* texts is_hallucination is applied to
FilterTexts ==
    TextsUpTo(MaxChars, {" ", "a", "!"})
      \cup {T_rep5, T_rep4, T_music, T_thanks, T_pitch, T_padded, T_ok}
      \cup hallucination_phrases

\* is_hallucination(fl_text) is called and returns
Filter ==
    /\ ~fl_done
    /\ fl_out' = is_hallucination(fl_text)
    /\ fl_done' = TRUE
    /\ UNCHANGED <<sessVars, thrVars, globVars, hubVars, fanVars, callVars,
                   ghostVars, insVars, reqVars, fl_text, fm_segs, fm_text,
                   fm_done, capVars, ordVars>>

\* "current_speaker = None" before the first segment
NoSpeaker == <<>>

\* f"[{current_speaker}]: {' '.join(current_text)}"
Line(speaker, texts) == <<"[">> \o speaker \o <<"]", ":", " ">> \o Join(texts)

\* lines.append(...) "if current_text"
Flush(lines, speaker, texts) ==
    IF texts # <<>> THEN Append(lines, Line(speaker, texts)) ELSE lines

\* the for loop over the segments and the flush after it
RECURSIVE FormatLoop(_, _, _, _)
FormatLoop(segs, current_speaker, current_text, lines) ==
    IF segs = <<>> THEN Flush(lines, current_speaker, current_text)
    ELSE LET speaker == Head(segs).speaker
             text == Strip(Head(segs).text)
         IN IF speaker # current_speaker
              THEN FormatLoop(Tail(segs), speaker,
                              IF text # <<>> THEN <<text>> ELSE <<>>,
                              Flush(lines, current_speaker, current_text))
              ELSE FormatLoop(Tail(segs), current_speaker,
                              IF text # <<>> THEN Append(current_text, text)
                                             ELSE current_text,
                              lines)

\* TranscriptionService.format_transcript_with_speakers(segments), and
\* SessionState.formatted_transcript over the segments of the session
format_transcript_with_speakers(segments) ==
    IF segments = <<>> THEN <<>>
    ELSE JoinWith("\n", FormatLoop(segments, NoSpeaker, <<>>, <<>>))

\* speaker labels and segment texts of the runs studied
S_00 == <<"S", "0">>
S_01 == <<"S", "1">>
SegmentSamples == [speaker : {S_00, S_01}, text : {T_empty, T_ok, T_padded}]

\* segment lists the formatter is applied to
FormatInputs == UNION {[1..m -> SegmentSamples] : m \in 0..MaxSegments}

\* format_transcript_with_speakers(fm_segs) is called and returns
Format ==
    /\ ~fm_done
    /\ fm_text' = format_transcript_with_speakers(fm_segs)
    /\ fm_done' = TRUE
    /\ UNCHANGED <<sessVars, thrVars, globVars, hubVars, fanVars, callVars,
                   ghostVars, insVars, reqVars, fl_text, fl_out, fl_done,
                   fm_segs, capVars, ordVars>>

\* ========================================================= broadcast hub
\* status the snapshot of session_stream reports
SnapshotStatus == IF active_session = NoSession THEN "idle"
                  ELSE status[active_session]

\* nothing is sent on connect
InitialMessages_None(st) == <<>>

\* "Send initial status": what session_stream sends right after the add
InitialMessages(st) == <<StatusMsg(st)>>

\* the socket stays in the set
Discard_Keep(set, w) == set

\* session_websockets.discard(websocket)
Discard(set, w) == set \ {w}

\* "for ws in session_websockets": the subscribers the loop has still to visit
IterTodo(members, start, seen) == members \ seen

\* message m is handed to the transports of the subscribers in W
Deliver(W, m) ==
    /\ delivered' = [w \in Subs |->
                       IF w \in W /\ m.type = "status" THEN m.val
                                                       ELSE delivered[w]]
    /\ first' = [w \in Subs |->
                   IF w \in W /\ first[w] = "none" THEN "event" ELSE first[w]]
    /\ late' = [w \in Subs |-> late[w] \/ (w \in W /\ w \notin session_websockets)]

\* the for loop of _broadcast from the subscribers in `todo` on.  A send
\* returns at once, or raises at once on a broken transport; on a stalled
\* transport the message is buffered and the send does not return: the
\* coroutine is suspended there.  With no stalled subscriber left the loop
\* ends and the disconnected sockets are discarded.
Iterate(m, todo, seen, disc) ==
    \/ /\ todo \cap stalled = {}
       /\ Deliver(todo \ broken, m)
       /\ bc_seen' = seen \cup todo
       /\ bc_disconnected' = disc \cup (todo \cap broken)
       /\ session_websockets' = session_websockets \ (disc \cup (todo \cap broken))
       /\ bc_pc' = "idle"
       /\ bc_wait' = NoSub
       /\ bc_raised' = FALSE
    \/ \E w \in todo \cap stalled, V \in SUBSET (todo \ stalled) :
          /\ Deliver((V \ broken) \cup {w}, m)
          /\ bc_seen' = seen \cup V \cup {w}
          /\ bc_disconnected' = disc \cup (V \cap broken)
          /\ bc_pc' = "blocked"
          /\ bc_wait' = w
          /\ UNCHANGED <<session_websockets, bc_raised>>

\* /session-stream: accept, add to the set, send the status snapshot, enter
\* the receive loop; when the send raises the finally branch discards the
\* socket at once
WsConnect(w, ok) ==
    /\ ws_pc[w] = "new"
    /\ loopOwner = NoCall
    /\ LET msgs == InitialMessages(SnapshotStatus) IN
       IF ok
         THEN /\ session_websockets' = session_websockets \cup {w}
              /\ ws_pc' = [ws_pc EXCEPT ![w] = "open"]
              /\ delivered' = [delivered EXCEPT ![w] =
                                 IF msgs # <<>> THEN msgs[1].val ELSE @]
              /\ first' = [first EXCEPT ![w] =
                             IF msgs # <<>> THEN "snapshot" ELSE @]
         ELSE /\ session_websockets' = Discard(session_websockets \cup {w}, w)
              /\ ws_pc' = [ws_pc EXCEPT ![w] = "gone"]
              /\ UNCHANGED <<delivered, first>>
    /\ UNCHANGED <<sessVars, thrVars, globVars, broken, loop_queue, stalled,
                   ws_event, late, bc_pc, bc_msg, bc_start, bc_seen,
                   bc_disconnected, bc_wait, bc_raised, callVars, ghostVars>>
    /\ UNCHANGED auxVars

\* the client sends "ping": the loop answers "pong"
WsPing(w) ==
    /\ ws_pc[w] = "open"
    /\ w \notin broken
    /\ loopOwner = NoCall
    /\ ws_event' = [ws_event EXCEPT ![w] = "pong"]
    /\ UNCHANGED <<sessVars, thrVars, globVars, hubVars, ws_pc, stalled, first,
                   late, bc_pc, bc_msg, bc_start, bc_seen, bc_disconnected,
                   bc_wait, bc_raised, callVars, ghostVars>>
    /\ UNCHANGED auxVars

\* receive_text() times out after 30 s: the loop sends {"type": "ping"} and
\* goes round; it only breaks, and the finally branch discards the socket,
\* when that send raises
WsReadTimeout(w) ==
    /\ ws_pc[w] = "open"
    /\ loopOwner = NoCall
    /\ IF w \in broken
         THEN /\ session_websockets' = Discard(session_websockets, w)
              /\ ws_pc' = [ws_pc EXCEPT ![w] = "gone"]
              /\ ws_event' = [ws_event EXCEPT ![w] = "ping_failed"]
              /\ broken' = broken \ {w}
         ELSE /\ ws_event' = [ws_event EXCEPT ![w] = "timeout"]
              /\ UNCHANGED <<session_websockets, ws_pc, broken>>
    /\ UNCHANGED <<sessVars, thrVars, globVars, delivered, loop_queue, stalled,
                   first, late, bc_pc, bc_msg, bc_start, bc_seen,
                   bc_disconnected, bc_wait, bc_raised, callVars, ghostVars>>
    /\ UNCHANGED auxVars

\* receive_text() raises: WebSocketDisconnect when the client closed, another
\* exception on a protocol error; the loop breaks and the finally branch
\* discards the socket
DisconnectCauses == {"close", "error"}

WsDisconnect(w, cause) ==
    /\ ws_pc[w] = "open"
    /\ loopOwner = NoCall
    /\ session_websockets' = Discard(session_websockets, w)
    /\ ws_pc' = [ws_pc EXCEPT ![w] = "gone"]
    /\ ws_event' = [ws_event EXCEPT ![w] = cause]
    /\ broken' = broken \ {w}
    /\ stalled' = stalled \ {w}
    /\ UNCHANGED <<sessVars, thrVars, globVars, delivered, loop_queue,
                   first, late, bc_pc, bc_msg, bc_start, bc_seen,
                   bc_disconnected, bc_wait, bc_raised, callVars, ghostVars>>
    /\ UNCHANGED auxVars

\* the transport of a connected subscriber breaks: sends to it raise
WsBreak(w) ==
    /\ ws_pc[w] = "open"
    /\ w \notin broken
    /\ broken' = broken \cup {w}
    /\ stalled' = stalled \ {w}
    /\ UNCHANGED <<sessVars, thrVars, globVars, session_websockets, delivered,
                   loop_queue, ws_pc, ws_event, first, late, bc_pc, bc_msg,
                   bc_start, bc_seen, bc_disconnected, bc_wait, bc_raised,
                   callVars, ghostVars>>
    /\ UNCHANGED auxVars

\* the client of a subscriber stops reading: its transport fills up
WsStall(w) ==
    /\ w \in session_websockets
    /\ ws_pc[w] = "open"
    /\ w \notin broken \cup stalled
    /\ stalled' = stalled \cup {w}
    /\ UNCHANGED <<sessVars, thrVars, globVars, hubVars, ws_pc, ws_event, first,
                   late, bc_pc, bc_msg, bc_start, bc_seen, bc_disconnected,
                   bc_wait, bc_raised, callVars, ghostVars>>
    /\ UNCHANGED auxVars

\* the client reads again: the transport drains, and the coroutines that
\* were suspended in a send to it are made ready in the order they came
WsDrain(w) ==
    /\ w \in stalled
    /\ stalled' = stalled \ {w}
    /\ loop_ready' = loop_ready \o send_waiters[w]
    /\ send_waiters' = [send_waiters EXCEPT ![w] = <<>>]
    /\ UNCHANGED <<sessVars, thrVars, globVars, hubVars, ws_pc, ws_event, first,
                   late, bc_pc, bc_msg, bc_start, bc_seen, bc_disconnected,
                   bc_wait, bc_raised, callVars, ghostVars>>
    /\ UNCHANGED <<insVars, reqVars, fnVars, capVars, ev_published, fo_pc,
                   fo_pos, fo_size, fo_disconnected, inbox>>

\* _broadcast(message), run by the loop from its start: return when the set
\* is empty, else send to the subscribers one after the other
Broadcast ==
    /\ loop_queue # <<>>
    /\ loopOwner = NoCall
    /\ bc_pc = "idle"
    /\ loop_queue' = Tail(loop_queue)
    /\ bc_msg' = Head(loop_queue)
    /\ bc_start' = session_websockets
    /\ IF session_websockets = {}
         THEN /\ bc_seen' = {}
              /\ bc_disconnected' = {}
              /\ bc_raised' = FALSE
              /\ UNCHANGED <<session_websockets, delivered, first, late,
                             bc_pc, bc_wait>>
         ELSE Iterate(Head(loop_queue), session_websockets, {}, {})
    /\ UNCHANGED <<sessVars, thrVars, globVars, broken, stalled, ws_pc,
                   ws_event, callVars, ghostVars>>
    /\ UNCHANGED auxVars

\* the send _broadcast was suspended in returns or raises, and the for loop
\* asks the set iterator for the next subscriber: "Set changed size during
\* iteration" leaves _broadcast when the set has another size than at the
\* start
BroadcastResume ==
    /\ bc_pc = "blocked"
    /\ loopOwner = NoCall
    /\ bc_wait \notin stalled
    /\ LET disc == IF bc_wait \in broken \/ ws_pc[bc_wait] = "gone"
                     THEN bc_disconnected \cup {bc_wait} ELSE bc_disconnected
       IN IF Cardinality(session_websockets) # Cardinality(bc_start)
            THEN /\ bc_raised' = TRUE
                 /\ bc_pc' = "idle"
                 /\ bc_wait' = NoSub
                 /\ bc_disconnected' = disc
                 /\ UNCHANGED <<session_websockets, delivered, first, late,
                                bc_seen>>
            ELSE Iterate(bc_msg, IterTodo(session_websockets, bc_start, bc_seen),
                         bc_seen, disc)
    /\ UNCHANGED <<sessVars, thrVars, globVars, broken, loop_queue, stalled,
                   ws_pc, ws_event, bc_msg, bc_start, callVars, ghostVars>>
    /\ UNCHANGED auxVars

\* ------------------------------------------- fan-outs that overlap
\* an observer of start_session is called with the next event:
\* run_coroutine_threadsafe(_broadcast(...), loop) queues the coroutine
Publish(limit) ==
    /\ ev_published < limit
    /\ ev_published' = ev_published + 1
    /\ fo_pc' = [fo_pc EXCEPT ![ev_published + 1] = "scheduled"]
    /\ loop_ready' = Append(loop_ready, ev_published + 1)
    /\ UNCHANGED <<sessVars, thrVars, globVars, hubVars, fanVars, callVars,
                   ghostVars, insVars, reqVars, fnVars, capVars, fo_pos,
                   fo_size, fo_disconnected, send_waiters, inbox>>

Least(S) == CHOOSE w \in S : \A v \in S : w <= v

\* "for ws in session_websockets: await ws.send_json(message)" of event e
\* from the subscriber after `pos` on, the subscribers numbered in the order
\* of the set's table, up to the end of the loop or the first send that
\* does not return: where the coroutine is then, and the transports' contents
RECURSIVE FanOut(_, _, _, _)
FanOut(e, pos, box, disc) ==
    LET rest == {w \in session_websockets : w > pos} IN
      IF rest = {}
        THEN [pc |-> "done", pos |-> pos, inbox |-> box, disc |-> disc]
        ELSE LET w == Least(rest)
                 sent == [box EXCEPT ![w] = Append(@, e)]
             IN IF w \in broken THEN FanOut(e, w, box, disc \cup {w})
                ELSE IF w \in stalled
                  THEN [pc |-> "blocked", pos |-> w, inbox |-> sent, disc |-> disc]
                  ELSE FanOut(e, w, sent, disc)

\* the loop runs the coroutine at the head of its ready queue up to its next
\* suspension: a _broadcast from its start ("if not session_websockets:
\* return"), or one whose send has returned and whose for loop asks the set
\* iterator for the next subscriber
FanRun ==
    /\ loop_ready # <<>>
    /\ loopOwner = NoCall
    /\ LET e == Head(loop_ready)
           changed == /\ fo_pc[e] = "blocked"
                      /\ Cardinality(session_websockets) # fo_size[e]
           r == FanOut(e, fo_pos[e], inbox, fo_disconnected[e])
       IN /\ loop_ready' = Tail(loop_ready)
          /\ fo_size' = [fo_size EXCEPT ![e] =
                            IF fo_pc[e] = "scheduled"
                              THEN Cardinality(session_websockets) ELSE @]
          /\ IF changed
               THEN /\ fo_pc' = [fo_pc EXCEPT ![e] = "raised"]
                    /\ UNCHANGED <<fo_pos, fo_disconnected, send_waiters, inbox,
                                   session_websockets>>
               ELSE /\ fo_pc' = [fo_pc EXCEPT ![e] = r.pc]
                    /\ fo_pos' = [fo_pos EXCEPT ![e] = r.pos]
                    /\ fo_disconnected' = [fo_disconnected EXCEPT ![e] = r.disc]
                    /\ inbox' = r.inbox
                    /\ send_waiters' =
                          IF r.pc = "blocked"
                            THEN [send_waiters EXCEPT ![r.pos] = Append(@, e)]
                            ELSE send_waiters
                    /\ session_websockets' =
                          IF r.pc = "done" THEN session_websockets \ r.disc
                                           ELSE session_websockets
    /\ UNCHANGED <<sessVars, thrVars, globVars, broken, delivered, loop_queue,
                   fanVars, callVars, ghostVars, insVars, reqVars, fnVars,
                   capVars, ev_published>>

\* steps of the /session-stream connections and of a suspended _broadcast
HubSteps ==
    \/ \E w \in Subs, ok \in BOOLEAN : WsConnect(w, ok)
    \/ \E w \in Subs : WsPing(w)
    \/ \E w \in Subs : WsReadTimeout(w)
    \/ \E w \in Subs, r \in DisconnectCauses : WsDisconnect(w, r)
    \/ \E w \in Subs : WsBreak(w)
    \/ \E w \in Subs : WsStall(w)
    \/ \E w \in Subs : WsDrain(w)
    \/ BroadcastResume

\* ========================================================= specifications
\* steps of the coroutines that run start() and stop()
StopSteps ==
    \/ \E c \in Calls : StopEnter(c)
    \/ \E c \in Calls : StopFace(c)
    \/ \E c \in Calls : StopWaitFace(c)
    \/ \E c \in Calls : StopInsight(c)
    \/ \E c \in Calls : StopWaitInsight(c)
    \/ \E c \in Calls : StopCapture(c)
    \/ \E c \in Calls, o \in CaptureStopOutcomes : StopWaitCapture(c, o)
    \/ \E c \in Calls, f \in FinalizeFaults : StopFinalize(c, f)
    \/ \E c \in Calls : Return(c)

CallSteps ==
    \/ \E c \in Calls : StartEnter(c)
    \/ \E c \in Calls, f \in StartFaults : StartWire(c, f)
    \/ StopSteps

\* steps of the background tasks and threads of a session
WorkerSteps ==
    \/ \E s \in Sessions, f \in ExtractFaults :
          InsightWake(s, f, <<>>, MaxTicks)
    \/ \E s \in Sessions, f \in HintFaults : InsightHints(s, f, R_plain, MaxTicks)
    \/ \E s \in Sessions : InsightBackoffDone(s)
    \/ \E s \in Sessions : InsightCancelled(s)
    \/ \E s \in Sessions : FaceFail(s)
    \/ \E s \in Sessions : FaceCancelled(s)
    \/ \E s \in Sessions, ok \in BOOLEAN : AudioOpen(s, ok, 0)
    \/ \E s \in Sessions : AudioAgain(s)

\* requests of the session control surface, at most `limit` session objects
ControlSteps(limit) ==
    \/ \E c \in Calls : SnsBegin(c, limit)
    \/ \E c \in Calls, cfg \in Configs : SnsCreate(c, cfg, limit)
    \/ \E c \in Calls : SetCallbacks(c)
    \/ \E c \in Calls : ScsBegin(c)
    \/ \E c \in Calls, o \in PersistOutcomes : Persist(c, o)
    \/ ForceReset

\* the service: concurrent requests of the session control surface
Next ==
    \/ CallSteps
    \/ ControlSteps(MaxSessions)
    \/ Broadcast

Spec == Init /\ [][Next]_vars

\* the service with its subscribers
NextHub ==
    \/ CallSteps
    \/ ControlSteps(SoloSessions)
    \/ \E w \in Subs, ok \in BOOLEAN : WsConnect(w, ok)
    \/ \E w \in Subs, r \in DisconnectCauses : WsDisconnect(w, r)
    \/ \E w \in Subs : WsBreak(w)
    \/ Broadcast

SpecHub == Init /\ [][NextHub]_vars

\* the service with the background work of its session
NextSession ==
    \/ CallSteps
    \/ \E c \in Calls : StopWaitCrm(c)
    \/ ControlSteps(SoloSessions)
    \/ WorkerSteps
    \/ LocalSteps(SoloChunks, {0, 300}, {{"diarize"}}, {<<T_pitch>>}, {T_empty})
    \/ AppendSteps
    \/ Broadcast

SpecSession == Init /\ [][NextSession]_vars

\* a running session with its audio capture and transcription threads,
\* and the request that drops the session
NextWorker ==
    \/ ForceReset
    \/ \E s \in Sessions, ok \in BOOLEAN : AudioOpen(s, ok, 0)
    \/ \E s \in Sessions : AudioAgain(s)
    \/ LocalSteps(MaxChunks, RmsSamples, LocalFaults, DiarizedSamples, PlainSamples)
    \/ RemoteSteps(MaxChunks, DiarizedSamples)
    \/ AppendSteps
    \/ Broadcast

SpecWorker == InitWorker /\ [][NextWorker]_vars

\* a running session, one transcription thread that publishes its events,
\* and the subscribers of /session-stream
NextFan ==
    \/ \E s \in Sessions, ok \in BOOLEAN : AudioOpen(s, ok, 0)
    \/ \E s \in Sessions : AudioAgain(s)
    \/ LocalSteps(SoloChunks, {0, 300}, {{"diarize"}}, {<<T_ok>>}, {T_empty})
    \/ AppendSteps
    \/ HubSteps
    \/ Broadcast

SpecFan == InitWorker /\ [][NextFan]_vars

\* steps of the insight loop: at most `limit` hint calls, the extractor
\* answers from `ents` and the hint generator from `results`
InsightSteps(limit, ents, results) ==
    \/ \E s \in Sessions, f \in ExtractFaults, e \in ents :
          InsightWake(s, f, e, limit)
    \/ \E s \in Sessions, f \in HintFaults, r \in results :
          InsightHints(s, f, r, limit)
    \/ \E s \in Sessions, o \in CardOutcomes : InsightCard(s, o)
    \/ \E s \in Sessions, o \in WebOutcomes : InsightWeb(s, o)
    \/ \E s \in Sessions : InsightBackoffDone(s)

\* POST /battlecard requests, at most `limit` of them
CardRequestSteps(limit) ==
    \/ \E n \in RequestNames : CardRequest(n, limit)
    \/ \E o \in CardOutcomes : CardRequestBase(o)
    \/ \E o \in WebOutcomes : CardRequestWeb(o)

\* the same service a little later: the capturer is streaming and, when
\* `heard`, the first chunk of a local session has been transcribed and its
\* events have been broadcast
InitTickerWith(observed) ==
    /\ InitInsight
    /\ InitCapturer({1}, 1)
    /\ InitNoFilter
    /\ InitNoFormat
    /\ created = 1
    /\ active_session = 1
    /\ config = [s \in Sessions |-> DefaultConfig]
    /\ status = [s \in Sessions |-> IF s = 1 THEN "running" ELSE "idle"]
    /\ capture_service = [s \in Sessions |-> s = 1]
    /\ capture_running = [s \in Sessions |-> s = 1]
    /\ insight_task = [s \in Sessions |-> IF s = 1 THEN "active" ELSE "none"]
    /\ face_task = [s \in Sessions |-> IF s = 1 THEN "active" ELSE "none"]
    /\ audio_thread = [s \in Sessions |-> IF s = 1 THEN "streaming" ELSE "none"]
    /\ callbacks = [s \in Sessions |-> s \in observed]
    /\ gemini_calls = [s \in Sessions |-> 0]
    /\ \E heard \in BOOLEAN :
          LET said(k) == k = 1 /\ heard
              segs(k) == IF said(k) THEN [i \in {1} |-> [chunk |-> 1, text |-> T_pitch]]
                         ELSE <<>>
          IN /\ transcript_segments = [s \in Sessions |-> segs(s)]
             /\ audio_chunks_processed = [s \in Sessions |-> IF said(s) THEN 1 ELSE 0]
             /\ chunks_submitted = [s \in Sessions |-> IF said(s) THEN 1 ELSE 0]
             /\ th_pc = [k \in Threads |-> IF said(k) THEN "done" ELSE "idle"]
             /\ th_kind = [k \in Threads |-> IF said(k) THEN "local" ELSE "none"]
             /\ th_sess = [k \in Threads |-> IF said(k) THEN 1 ELSE NoSession]
             /\ th_rms = [k \in Threads |-> IF said(k) THEN 300 ELSE 0]
             /\ th_raw = [k \in Threads |-> segs(k)]
             /\ th_valid = [k \in Threads |-> segs(k)]
             /\ th_invoked = [k \in Threads |-> IF said(k) THEN {"diarize"} ELSE {}]
             /\ th_published = [k \in Threads |-> IF said(k) THEN 1 ELSE 0]
             /\ completion = IF heard THEN <<1>> ELSE <<>>
             /\ bc_msg = IF heard THEN Msg("hints") ELSE Msg("none")
    /\ th_read = [k \in Threads |-> 0]
    /\ th_failed = [k \in Threads |-> FALSE]
    /\ session_websockets = {}
    /\ broken = {}
    /\ delivered = [w \in Subs |-> "none"]
    /\ ws_pc = [w \in Subs |-> "new"]
    /\ stalled = {}
    /\ ws_event = [w \in Subs |-> "none"]
    /\ first = [w \in Subs |-> "none"]
    /\ late = [w \in Subs |-> FALSE]
    /\ bc_pc = "idle"
    /\ bc_start = {}
    /\ bc_seen = {}
    /\ bc_disconnected = {}
    /\ bc_wait = NoSub
    /\ bc_raised = FALSE
    /\ loop_queue = <<>>
    /\ pc = [c \in Calls |-> "idle"]
    /\ kind = [c \in Calls |-> "none"]
    /\ callSess = [c \in Calls |-> NoSession]
    /\ result = [c \in Calls |-> NoResult]
    /\ loopOwner = NoCall
    /\ entry = [c \in Calls |-> "none"]
    /\ persisted = [c \in Calls |-> FALSE]
    /\ finalized = [c \in Calls |-> FALSE]
    /\ finalize_runs = [s \in Sessions |-> 0]
    /\ crm_calls = [s \in Sessions |-> 0]
    /\ notified = [s \in Sessions |-> {}]

\* the observers of session 1 are set, as start_session sets them
InitTicker == InitTickerWith({1})

\* a session that was started without observers
InitUnobserved == InitTickerWith({})

\* a running session with its insight loop, the /battlecard requests and the
\* request that drops the session
NextInsight ==
    \/ ForceReset
    \/ InsightSteps(MaxInsightTicks, EntitySamples, HintResults)
    \/ CardRequestSteps(MaxCardRequests)
    \/ Broadcast

SpecInsight == InitTicker /\ [][NextInsight]_vars

\* a running session, its background tasks, and /start-session requests
\* that replace it
NextRestart ==
    \/ CallSteps
    \/ \E c \in Calls : SnsBegin(c, MaxSessions)
    \/ \E c \in Calls, cfg \in Configs : SnsCreate(c, cfg, MaxSessions)
    \/ \E c \in Calls : SetCallbacks(c)
    \/ \E s \in Sessions : FaceFail(s)
    \/ \E s \in Sessions : FaceCancelled(s)
    \/ \E s \in Sessions : InsightCancelled(s)
    \/ Broadcast

SpecRestart == InitWorker /\ [][NextRestart]_vars

\* a running local session whose chunks are ChunkBlocks blocks long
InitCapture ==
    /\ InitStarted(ChunkBlocks)
    /\ config[1].capture_mode = "local"

\* the capturer of a running session: its audio loop, the audio callback,
\* the threads of silent chunks, and the /stop-session requests that stop
\* the session and its capturer
NextCapture ==
    \/ \E s \in Sessions, ok \in BOOLEAN : AudioOpen(s, ok, 0)
    \/ \E s \in Sessions : AudioAgain(s)
    \/ \E s \in Sessions : AudioCallback(s)
    \/ \E s \in Sessions, k \in Threads : ChunkSubmit(s, k, 0, MaxChunks)
    \/ \E k \in Threads : LocalSilent(k)
    \/ StopSteps
    \/ \E c \in Calls : ScsBegin(c)
    \/ \E c \in Calls, o \in PersistOutcomes : Persist(c, o)
    \/ \E s \in Sessions : FaceCancelled(s)
    \/ \E s \in Sessions : InsightCancelled(s)
    \/ Broadcast

SpecCapture == InitCapture /\ [][NextCapture]_vars

\* the audio thread is scheduled: its sleeps end, and the pass of the loop
\* that follows a back-off or the end of capture is made
AudioLeave(s) ==
    /\ audio_thread[s] = "backoff" \/ ~capture_running[s]
    /\ AudioAgain(s)

\* the audio loop alone, with the requests that stop the session
NextAudioLoop ==
    \/ \E s \in Sessions, ok \in BOOLEAN : AudioOpen(s, ok, MaxErrors)
    \/ \E s \in Sessions : AudioAgain(s)
    \/ StopSteps
    \/ \E c \in Calls : ScsBegin(c)
    \/ \E c \in Calls, o \in PersistOutcomes : Persist(c, o)
    \/ \E s \in Sessions : FaceCancelled(s)
    \/ \E s \in Sessions : InsightCancelled(s)
    \/ Broadcast

SpecAudioLoop ==
    /\ InitCapture
    /\ [][NextAudioLoop]_vars
    /\ \A s \in Sessions : WF_vars(AudioLeave(s))
    /\ \A s \in Sessions : WF_vars(\E ok \in BOOLEAN : AudioOpen(s, ok, MaxErrors))

\* the insight loop of a session on which every tick detects the same
\* competitor and the same two research topics, and get_battlecard always
\* answers; the loop goes on for ever, its calls are counted up to a bound
EveryTickEntities == <<E_aws, E_acme, E_monday>>
EveryTickTargets ==
    Range(detect_competitors(EveryTickEntities) \o R_topics.research_topics)

SteadyTick(s) ==
    \/ InsightWake(s, "none", EveryTickEntities, MaxInsightTicks + 1)
    \/ InsightHints(s, "none", R_topics, MaxInsightTicks)
    \/ InsightCard(s, "ok")
    \/ \E o \in WebOutcomes : InsightWeb(s, o)

NextSteady == \E s \in Sessions : SteadyTick(s)

SpecSteady ==
    /\ InitUnobserved
    /\ [][NextSteady]_vars
    /\ \A s \in Sessions : WF_vars(SteadyTick(s))

\* a running session, subscribers that connect, stall and drain, and the
\* events its observers publish, each with its own _broadcast coroutine
NextOrder ==
    \/ Publish(MaxEvents)
    \/ FanRun
    \/ \E w \in Subs, ok \in BOOLEAN : WsConnect(w, ok)
    \/ \E w \in Subs : WsStall(w)
    \/ \E w \in Subs : WsDrain(w)

SpecOrder == InitWorker /\ [][NextOrder]_vars

\* is_hallucination applied to one text
InitFilter ==
    /\ InitCommon
    /\ InitNoFormat
    /\ created = 0
    /\ config = [s \in Sessions |-> DefaultConfig]
    /\ fl_text \in FilterTexts
    /\ fl_out = FALSE
    /\ fl_done = FALSE

NextFilter == Filter

SpecFilter == InitFilter /\ [][NextFilter]_vars

\* format_transcript_with_speakers applied to one list of segments
InitFormat ==
    /\ InitCommon
    /\ InitNoFilter
    /\ created = 0
    /\ config = [s \in Sessions |-> DefaultConfig]
    /\ fm_segs \in FormatInputs
    /\ fm_text = <<>>
    /\ fm_done = FALSE

NextFormat == Format

SpecFormat == InitFormat /\ [][NextFormat]_vars

\* ================================================================ claims
\* pcs of a call that is inside LiveAssistantSession.stop(), past the guard
StopPcs == {"stop_face", "stop_wait_face", "stop_insight", "stop_wait_insight",
            "stop_capture", "stop_wait_capture", "stop_finalize",
            "stop_wait_crm"}

\* the stop() a /stop-session request ran has returned or raised
StopSessionBack(c) == kind[c] = "stop_session" /\ pc[c] \in {"persist", "done"}

\* the status graph of the session state machine
StatusGraph == {<<"idle", "starting">>, <<"starting", "running">>,
                <<"starting", "error">>, <<"running", "error">>,
                <<"starting", "processing">>, <<"running", "processing">>,
                <<"processing", "completed">>}

\* C1: the status of a session changes only along the edges IDLE->STARTING,
\* STARTING->RUNNING, STARTING->ERROR, RUNNING->ERROR, STARTING->PROCESSING,
\* RUNNING->PROCESSING and PROCESSING->COMPLETED, whatever start and stop
\* requests and internal faults interleave; so COMPLETED is entered only from
\* PROCESSING and PROCESSING, COMPLETED and ERROR never go back to STARTING or
\* RUNNING.
C1_StatusGraph ==
    [][\A s \in Sessions :
          status'[s] # status[s] => <<status[s], status'[s]>> \in StatusGraph]_vars

\* a session went all the way to COMPLETED through a finalization while a
\* second request was in flight
C1_Witness ==
    \E s \in Sessions :
        /\ status[s] = "completed"
        /\ finalize_runs[s] = 1
        /\ \E c \in Calls : kind[c] = "start_session" /\ entry[c] = "running"

\* C2: at most one session is RUNNING in the process, under any interleaving
\* of start_new_session, stop_current_session and force_reset_session.
C2_AtMostOneRunning ==
    Cardinality({s \in Sessions : status[s] = "running"}) <= 1

\* C3: when the same session is asked to stop twice, back to back or the
\* second time while the first stop is suspended, the second request gets the
\* "not running" result and the finalization runs at most once for the session.
C3_StopTwice ==
    /\ \A s \in Sessions : finalize_runs[s] <= 1
    /\ \A c \in Calls :
          StopSessionBack(c) /\ entry[c] \in {"processing", "completed"}
             => result[c].r = "not_running" /\ ~finalized[c]

\* a /stop-session request met the session while the stop() of another
\* request was suspended: it got "not running" and the finalization ran once
C3_Witness ==
    \E c, d \in Calls :
        /\ c # d
        /\ finalized[c]
        /\ StopSessionBack(d)
        /\ entry[d] = "processing"
        /\ result[d].r = "not_running"
        /\ finalize_runs[callSess[d]] = 1

\* C4: a stop request for a session that is neither RUNNING nor STARTING is a
\* no-op through the whole stop path, the /stop-session handler included: it
\* answers "not running", runs no finalization and writes nothing to the
\* database or the CRM.
C4_StopNotRunningIsNoOp ==
    \A c \in Calls :
        kind[c] = "stop_session" /\ pc[c] = "done"
          /\ entry[c] \notin {"running", "starting"}
        => /\ result[c].http = "not_running"
           /\ ~persisted[c]
           /\ ~finalized[c]

\* C5: start() on an IDLE session sets STARTING and then, in the same call,
\* RUNNING when the wiring succeeds or ERROR with the exception re-raised when
\* it fails; a session is STARTING only inside such a call, so a failed start
\* never leaves it STARTING or RUNNING.
C5_StartOutcome ==
    [][\A c \in Calls :
          /\ (pc[c] = "start_enter" /\ pc'[c] # "start_enter"
                /\ status[callSess[c]] = "idle")
               => pc'[c] = "start_wire" /\ status'[callSess[c]] = "starting"
          /\ (pc[c] = "start_wire" /\ pc'[c] # "start_wire")
               => \/ status'[callSess[c]] = "running" /\ result'[c].r = "ok"
                  \/ status'[callSess[c]] = "error" /\ result'[c].r = "raised"
          /\ \A s \in Sessions :
                status'[s] = "starting"
                  => \E d \in Calls : pc'[d] = "start_wire" /\ callSess'[d] = s]_vars

\* a start whose wiring raised: the session is in ERROR and the caller got
\* the exception
C5_Witness ==
    \E c \in Calls :
        /\ kind[c] = "start_session"
        /\ pc[c] = "done"
        /\ result[c].r = "raised"
        /\ status[callSess[c]] = "error"

\* C6: ERROR is set only by a failed start(); a step that is not a step of a
\* start() or stop() call (an audio-device error, a failed transcription, a
\* failed insight tick, a broadcast) changes no status, and a RUNNING session
\* leaves RUNNING only by stop() setting PROCESSING.
C6_ErrorOnlyFromStart ==
    [][/\ status' # status => \E c \in Calls : pc'[c] # pc[c]
       /\ \A s \in Sessions :
            /\ (status'[s] = "error" /\ status[s] # "error")
                 => \E c \in Calls : /\ pc[c] = "start_wire"
                                     /\ callSess[c] = s
                                     /\ result'[c].r = "raised"
            /\ (status[s] = "running" /\ status'[s] # "running")
                 => /\ status'[s] = "processing"
                    /\ \E c \in Calls : pc[c] = "stop_enter" /\ callSess[c] = s]_vars

\* a RUNNING session whose audio device failed and whose insight tick failed
C6_Witness ==
    \E s \in Sessions :
        /\ status[s] = "running"
        /\ audio_thread[s] = "backoff"
        /\ insight_task[s] = "backoff"

\* C7: every stop() that moved the session to PROCESSING ends with the
\* session COMPLETED and a result returned to its caller, whatever failed or
\* timed out on the way (scheduler wait, capture teardown timeout or raise,
\* finalization raise).
C7_StopCompletes ==
    \A c \in Calls :
        StopSessionBack(c) /\ entry[c] \in {"running", "starting"}
          => status[callSess[c]] = "completed" /\ result[c].r = "ok"

\* C8: inside one stop() the steps come in the order PROCESSING, scheduler
\* cancelled, capture stopped, finalization, COMPLETED: while the call
\* finalizes the session is PROCESSING, its scheduler and face tasks have been
\* cancelled and its capture is not marked running, and the session is not
\* COMPLETED while a call is still inside stop().
C8_StopOrder ==
    \A c \in Calls :
        /\ pc[c] \in StopPcs => status[callSess[c]] = "processing"
        /\ pc[c] \in {"stop_capture", "stop_wait_capture", "stop_finalize",
                      "stop_wait_crm"}
             => /\ insight_task[callSess[c]] \notin InsightPending
                /\ face_task[callSess[c]] # "active"
        /\ pc[c] \in {"stop_finalize", "stop_wait_crm"}
             => ~capture_running[callSess[c]]

\* a stop() is inside its finalization, waiting for the CRM hand-off
C8_Witness ==
    \E c \in Calls :
        /\ pc[c] = "stop_wait_crm"
        /\ finalized[c]
        /\ status[callSess[c]] = "processing"

\* C9: every status change of a session started through /start-session
\* (STARTING, RUNNING, PROCESSING, COMPLETED, ERROR) calls the status observer.
C9_EveryChangeNotified ==
    [][\A s \in Sessions :
          status'[s] # status[s] => status'[s] \in notified'[s]]_vars

\* C10: when stop() returns for a RUNNING session with two healthy
\* subscribers, both have been sent the status "completed".
C10_CompletedSentBeforeReturn ==
    \A c \in Calls :
        /\ StopSessionBack(c)
        /\ entry[c] = "running"
        /\ result[c].r = "ok"
        /\ session_websockets = Subs
        /\ broken = {}
        /\ \A w \in Subs : delivered[w] \notin {"none", "idle"}
        => \A w \in Subs : delivered[w] = "completed"

\* C11: a locally captured chunk whose RMS is below the silence threshold
\* never has the diarizing or the plain transcriber invoked for it, and its
\* thread never reaches the steps that add to the transcript or the counter
C11_SilentChunkSkipped ==
    \A k \in Threads :
        (th_kind[k] = "local" /\ th_pc[k] # "idle" /\ th_rms[k] < SilenceThreshold)
            => /\ th_invoked[k] = {}
               /\ th_pc[k] \in {"start", "done"}
               /\ th_valid[k] = <<>>
               /\ \A i \in 1..Len(completion) : completion[i] # k
               /\ \A i \in 1..Len(transcript_segments[th_sess[k]]) :
                      transcript_segments[th_sess[k]][i].chunk # k

\* a silent chunk was dropped while a louder one reached the transcript
C11_Witness ==
    \E k, j \in Threads :
        /\ th_kind[k] = "local" /\ th_rms[k] = 9 /\ th_pc[k] = "done"
        /\ th_kind[j] = "local" /\ th_rms[j] = 10 /\ th_pc[j] = "done"
        /\ completion = <<j>>
        /\ audio_chunks_processed[th_sess[k]] = 1

\* C12: no segment of transcript_segments has a text that matches a
\* hallucination pattern (empty, shorter than 2 characters, one character
\* repeated 5 times or more, a denylisted phrase), whether the audio was
\* captured locally or streamed through /audio-stream
C12_NoHallucinationInTranscript ==
    \A s \in Sessions :
        \A i \in 1..Len(transcript_segments[s]) :
            ~is_hallucination(transcript_segments[s][i].text)

\* sequence a is a prefix of sequence b
IsPrefix(a, b) == Len(a) <= Len(b) /\ SubSeq(b, 1, Len(a)) = a

\* C13: transcript_segments is append-only: in every step the old value of
\* the sequence is a prefix of the new value
C13_AppendOnly ==
    [][\A s \in Sessions :
          IsPrefix(transcript_segments[s], transcript_segments'[s])]_vars

\* two chunks, one captured locally and one streamed, have appended, the
\* second after the first
C13_Witness ==
    /\ Len(completion) = 2
    /\ th_kind[completion[1]] # th_kind[completion[2]]
    /\ Len(transcript_segments[1]) >= 3
    /\ transcript_segments[1][1].chunk = completion[1]
    /\ transcript_segments[1][Len(transcript_segments[1])].chunk = completion[2]

\* the valid segments of the threads in `order`, one thread after the other
RECURSIVE ConcatValid(_)
ConcatValid(order) ==
    IF order = <<>> THEN <<>>
    ELSE th_valid[Head(order)] \o ConcatValid(Tail(order))

\* C14: the transcript is made of the surviving segments of the chunks in
\* the order their threads completed (appended), whatever the order the
\* chunks were submitted in; the segments of one chunk are contiguous and in
\* the order the transcriber returned them
C14_CompletionOrder ==
    \A s \in Sessions :
        transcript_segments[s] =
            ConcatValid(SelectSeq(completion, LAMBDA k : th_sess[k] = s))

\* the chunk submitted second completed first; both are on the transcript,
\* one of them with two segments
C14_Witness ==
    /\ completion = <<2, 1>>
    /\ th_kind[1] = "local" /\ th_kind[2] = "local"
    /\ Len(th_valid[1]) = 2
    /\ Len(transcript_segments[1]) = 3
    /\ transcript_segments[1][1].chunk = 2

\* C15: a locally captured chunk whose transcription raises is dropped: the
\* step in which it fails leaves the session status, the transcript, the
\* counter, the capturer and the event queue as they were, the chunk never
\* gets on the transcript and no transcript event is published for it
C15_FailedChunkDropped ==
    /\ [](\A k \in Threads :
            (th_kind[k] = "local" /\ th_failed[k])
                => /\ th_pc[k] = "done"
                   /\ th_published[k] = 0
                   /\ \A i \in 1..Len(completion) : completion[i] # k
                   /\ \A i \in 1..Len(transcript_segments[th_sess[k]]) :
                          transcript_segments[th_sess[k]][i].chunk # k)
    /\ [][\A k \in Threads :
            (th_kind[k] = "local" /\ ~th_failed[k] /\ th_failed'[k])
                => /\ status' = status
                   /\ transcript_segments' = transcript_segments
                   /\ audio_chunks_processed' = audio_chunks_processed
                   /\ loop_queue' = loop_queue
                   /\ audio_thread' = audio_thread
                   /\ capture_running' = capture_running]_vars

\* the first chunk failed in the transcriber, the session is still RUNNING
\* and the chunk submitted after it was transcribed and counted
C15_Witness ==
    /\ th_kind[1] = "local" /\ th_failed[1] /\ th_invoked[1] = {"diarize"}
    /\ th_kind[2] = "local" /\ th_pc[2] = "done"
    /\ completion = <<2>>
    /\ status[1] = "running"
    /\ audio_chunks_processed[1] = 1
    /\ Len(transcript_segments[1]) = 2

\* the segments of chunk k on the transcript of its session
OnTranscript(k) ==
    IF th_sess[k] = NoSession THEN <<>>
    ELSE SelectSeq(transcript_segments[th_sess[k]], LAMBDA seg : seg.chunk = k)

\* the segments the transcribers returned for chunk k that match no
\* hallucination pattern
Surviving(k) == SelectSeq(th_raw[k], LAMBDA seg : ~is_hallucination(seg.text))

C17_CounterCountsChunks ==
    (\A k \in Threads : th_pc[k] \in {"idle", "done"})
        => \A s \in Sessions :
              audio_chunks_processed[s] =
                  Len(SelectSeq(completion, LAMBDA k : th_sess[k] = s))

\* the subscribers the latest _broadcast has handed its message to
Got == bc_seen \ bc_disconnected

\* subscribers that were in the set when the latest _broadcast began, are
\* still in it and have a working transport
Reachable == (bc_start \cap session_websockets) \ (broken \cup stalled)

\* C18: _broadcast hands the event to every connected subscriber whose send
\* succeeds, removes the subscribers whose send fails and only those, ends
\* without an exception, and is not kept from the other subscribers by one
\* that is broken or stalled: while a send has not returned, and after the
\* loop has ended, every subscriber with a working transport has the event
C18_FanOut ==
    /\ ~bc_raised
    /\ Reachable \subseteq Got
    /\ bc_pc = "idle" =>
          /\ bc_disconnected \cap session_websockets = {}
          /\ \A w \in bc_start \ session_websockets :
                w \in bc_disconnected \/ ws_pc[w] = "gone"

\* C19: the first message a connection of /session-stream is sent is the
\* status snapshot: no connection is sent a broadcast event first, and a
\* connection in its receive loop has been sent the snapshot
C19_SnapshotFirst ==
    \A w \in Subs :
        /\ first[w] # "event"
        /\ ws_pc[w] = "open" => first[w] = "snapshot"

\* a subscriber connected while a _broadcast was suspended in a send to
\* another one, another event waiting behind it, and was sent the snapshot
C19_Witness ==
    \E w \in Subs :
        /\ ws_pc[w] = "open"
        /\ w \in session_websockets \ bc_start
        /\ bc_pc = "blocked"
        /\ loop_queue # <<>>
        /\ first[w] = "snapshot"

\* C20 as stated: a subscriber whose read timed out, that met a protocol
\* error or that closed the connection is no longer in the subscriber set
\* and is sent no further events
C20_RemovedOnTimeout ==
    \A w \in Subs :
        /\ ws_event[w] \in {"timeout", "ping_failed", "error", "close"}
              => w \notin session_websockets
        /\ ~late[w]

\* C20 as amended: a subscriber is no longer in the subscriber set once the
\* keep-alive that follows a read timeout could not be sent, a protocol
\* error occurred or it closed the connection, and no connection is sent an
\* event while it is outside the set
C20_RemovedOnExit ==
    \A w \in Subs :
        /\ ws_event[w] \in {"ping_failed", "error", "close"}
              => w \notin session_websockets /\ ws_pc[w] = "gone"
        /\ ~late[w]

\* one subscriber was dropped because its keep-alive could not be sent; the
\* other had a read timeout, is still subscribed and was sent the event
\* published afterwards
C20_Witness ==
    \E w, v \in Subs :
        /\ ws_event[w] = "ping_failed" /\ w \notin session_websockets
        /\ ws_event[v] = "timeout" /\ v \in session_websockets
        /\ bc_start = {v} /\ v \in Got

\* C21: the insight loop works only while its session is RUNNING: once
\* stop() has returned for the session, or the session has been force-reset,
\* the loop starts no tick (it calls neither the extractor nor the hint
\* generator), and its task ends.  The formula is the part about starting.
C21_NoTickOnceStoppedOrReset ==
    [][\A s \in Sessions :
          insight_task[s] = "active" /\ insight_task'[s] \in {"hints", "backoff"}
            => s \notin dropped /\ status[s] # "completed"]_vars

\* C22: when the extractor or the hint generator raises during a tick, the
\* tick is skipped: quick_hints, detected_entities, battlecards and
\* gemini_calls keep their values, the tick schedules no event, the status
\* stays as it was (RUNNING stays RUNNING), and after the back-off the loop
\* of a RUNNING session is at its sleep again, ready for the next tick.
C22_FailedTickSkipped ==
    [][\A s \in Sessions :
          /\ insight_task[s] \in {"active", "hints"} /\ insight_task'[s] = "backoff"
               => /\ quick_hints'[s] = quick_hints[s]
                  /\ detected_entities'[s] = detected_entities[s]
                  /\ battlecards'[s] = battlecards[s]
                  /\ gemini_calls'[s] = gemini_calls[s]
                  /\ loop_queue' = loop_queue
                  /\ status'[s] = status[s]
          /\ insight_task[s] = "backoff" /\ insight_task'[s] # "backoff"
             /\ status[s] = "running"
               => insight_task'[s] = "active"]_vars

\* a tick failed after an earlier tick had produced hints
C22_Witness ==
    \E s \in Sessions :
        /\ insight_task[s] = "backoff"
        /\ status[s] = "running"
        /\ gemini_calls[s] = 1
        /\ quick_hints[s] # <<>>

\* C23: battlecards are deduplicated by their competitor/topic key: a session
\* never holds two battlecards for the same competitor or topic, whatever
\* insight ticks and /battlecard requests produced them.
C23_OneCardPerTarget ==
    \A s \in Sessions :
        \A i, j \in 1..Len(battlecards[s]) :
            battlecards[s][i].competitor = battlecards[s][j].competitor => i = j

\* C24: force-reset takes the system to IDLE from any session state: in the
\* step in which force_reset_session drops a session, GET /session-status
\* comes to report "idle" and the capture of the dropped session is marked
\* stopped, and the step waits for nothing: the insight task, the
\* transcription threads and the calls in progress are where they were.
C24_ForceResetToIdle ==
    [][dropped' # dropped
         => /\ get_session_status' = "idle"
            /\ \A s \in dropped' \ dropped : ~capture_running'[s]
            /\ insight_task' = insight_task
            /\ th_pc' = th_pc
            /\ pc' = pc]_vars

\* a session was dropped while a stop() was finalizing it and a
\* transcription thread was at work
C24_Witness ==
    \E s \in dropped, c \in Calls, k \in Threads :
        /\ active_session = NoSession
        /\ status[s] = "processing"
        /\ callSess[c] = s /\ pc[c] \in StopPcs
        /\ th_sess[k] = s /\ th_pc[k] \notin {"idle", "done"}

\* C25: when a session is started while the previous one is active (STARTING
\* or RUNNING), the previous one is stopped first: at the moment the capture
\* of the new session starts, the scheduler of every earlier session has
\* been cancelled and its capture is not running; an error raised while the
\* previous session was being stopped is swallowed, the start goes on.
C25_PreviousStoppedFirst ==
    [][\A c \in Calls :
          /\ kind[c] = "start_session"
          /\ entry[c] \in {"running", "starting"}
          /\ pc[c] = "start_wire"
          /\ capture_running'[callSess[c]]
          => \A p \in Sessions :
                p < callSess[c] => /\ ~capture_running[p]
                                   /\ insight_task[p] \notin InsightPending]_vars

\* the speaker of each run of segments of one speaker, in order
RECURSIVE RunSpeakers(_)
RunSpeakers(segs) ==
    IF segs = <<>> THEN <<>>
    ELSE IF Len(segs) > 1 /\ segs[1].speaker = segs[2].speaker
      THEN RunSpeakers(Tail(segs))
      ELSE <<Head(segs).speaker>> \o RunSpeakers(Tail(segs))

\* text.split("\n") of a non-empty text
RECURSIVE SplitLines(_)
SplitLines(text) ==
    IF \E i \in 1..Len(text) : text[i] = "\n"
      THEN LET i == CHOOSE k \in 1..Len(text) :
                       text[k] = "\n" /\ \A j \in 1..(k - 1) : text[j] # "\n"
           IN <<SubSeq(text, 1, i - 1)>> \o SplitLines(SubSeq(text, i + 1, Len(text)))
      ELSE <<text>>

\* the label of a "[SPEAKER]: text" line: what stands between the opening
\* bracket and the first closing one
Label(line) ==
    LET close == CHOOSE k \in 1..Len(line) :
                     line[k] = "]" /\ \A j \in 1..(k - 1) : line[j] # "]"
    IN SubSeq(line, 2, close - 1)

\* the speaker labels read back from a formatted transcript
ParseSpeakers(text) ==
    IF text = <<>> THEN <<>>
    ELSE LET lines == SplitLines(text)
         IN [i \in 1..Len(lines) |-> Label(lines[i])]

\* C26: round trip: for any sequence of transcript segments, the speaker
\* labels read back from the lines of the formatted transcript are the
\* speakers of the runs of the sequence, in order.
C26_SpeakersRoundTrip ==
    fm_done => ParseSpeakers(fm_text) = RunSpeakers(fm_segs)

\* C28: is_hallucination(text) is true exactly when the text, with the
\* blanks at its ends removed, is empty, is shorter than 2 characters, is one
\* character repeated 5 times or more, or matches (contains, whatever the
\* case of its letters) a phrase of the denylist; it is false for every
\* other text, such as a character repeated 4 times or an ordinary sentence.
C28_HallucinationExactly ==
    fl_done =>
      LET t == Strip(fl_text)
          empty == t = <<>>
          tiny == Len(t) < 2
          repeated == \E ch \in Range(t) : Len(t) >= 5 /\ t = [i \in 1..Len(t) |-> ch]
          listed == \E p \in hallucination_phrases :
                       \E i \in 1..Len(t) : \E j \in i..Len(t) :
                           Lower(SubSeq(t, i, j)) = p
      IN /\ fl_out <=> (empty \/ tiny \/ repeated \/ listed)
         /\ fl_text \in {T_rep4, T_ok, T_padded, T_pitch} => ~fl_out
         /\ fl_text \in {T_empty, T_blank, T_short, T_rep5, T_music, T_thanks} => fl_out

\* the filter has let a character repeated four times through
C28_Witness == fl_done /\ fl_text = T_rep4 /\ ~fl_out

\* C27: stop() cancels or waits for the transcription work in flight before
\* it finalizes: once stop() has returned and the session is COMPLETED, no
\* transcription thread appends to its transcript, increments its chunk
\* counter or publishes for it, so the transcript of the stop() result holds
\* every segment.
C27_NoTranscriptionAfterStop ==
    [][\A s \in Sessions :
          status[s] = "completed"
            => /\ transcript_segments'[s] = transcript_segments[s]
               /\ audio_chunks_processed'[s] = audio_chunks_processed[s]
               /\ \A k \in Threads :
                     th_sess[k] = s => th_published'[k] = th_published[k]]_vars

\* C29: a tick works on at most 2 targets of the merged competitors and
\* research topics, and it asks for no battlecard of a target that already has
\* one: a tick makes at most 2 get_battlecard calls and appends at most 2
\* battlecards, and every call it makes is for a target without a battlecard.
C29_TwoTargetsPerTick ==
    [][\A s \in Sessions :
          /\ Len(tk_targets'[s]) <= 2
          /\ tk_requests'[s] <= 2
          /\ tk_appended'[s] <= 2
          /\ tk_requests'[s] > tk_requests[s]
               => Head(tk_targets'[s]) \notin Competitors(battlecards'[s])]_vars

\* a tick has asked for and appended two battlecards, and the next tick, with
\* competitors among its entities, found a battlecard for each of its targets
\* and made no request
C29_Witness ==
    \E s \in Sessions :
        /\ gemini_calls[s] = 2
        /\ insight_task[s] = "active"
        /\ detect_competitors(detected_entities[s]) # <<>>
        /\ tk_requests[s] = 0
        /\ Len(battlecards[s]) = 2
        /\ rq_count = 0

C31_NoOverlappingRequests ==
    \A s \in Sessions :
        (active_session = s /\ insight_task[s] = "card" /\ rq_pc = "card")
            => rq_name # Head(tk_targets[s])

\* the blocks of the emitted chunks of a session, one after the other
RECURSIVE Flatten(_)
Flatten(chunks) ==
    IF chunks = <<>> THEN <<>> ELSE Head(chunks) \o Flatten(Tail(chunks))

\* C32: the capturer emits a chunk exactly when the accumulated blocks reach
\* the chunk size; the emitted chunk holds every block accumulated since the
\* previous emission (or since the stream was opened), the buffer is empty
\* afterwards, and no block is in two chunks, twice in a chunk, or both in a
\* chunk and in the buffer.
C32_BufferSwap ==
    /\ [](\A s \in Sessions :
            LET all == Flatten(emitted[s]) \o audio_buffer[s]
            IN /\ \A i, j \in 1..Len(all) : all[i] = all[j] => i = j
               /\ Len(audio_buffer[s]) < chunk_samples
               /\ \A i \in 1..Len(emitted[s]) : Len(emitted[s][i]) = chunk_samples)
    /\ [][\A s \in Sessions :
            /\ emitted'[s] # emitted[s] => blocks_captured'[s] = blocks_captured[s] + 1
            /\ blocks_captured'[s] # blocks_captured[s]
                 => LET block == blocks_captured[s] + 1
                        held == Append(audio_buffer[s], block)
                    IN /\ blocks_captured'[s] = block
                       /\ IF Len(held) >= chunk_samples
                            THEN /\ emitted'[s] = Append(emitted[s], held)
                                 /\ audio_buffer'[s] = <<>>
                            ELSE /\ emitted'[s] = emitted[s]
                                 /\ audio_buffer'[s] = held]_vars

\* two chunks of two blocks each have been emitted, the second one after the
\* stream was opened again with a block in the buffer
C32_Witness ==
    \E s \in Sessions :
        /\ chunk_samples = ChunkBlocks
        /\ emitted[s] = <<<<1, 2>>, <<4, 5>>>>
        /\ audio_buffer[s] = <<>>

\* positions of the audio thread inside its loop
AudioInLoop == {"opening", "streaming", "backoff"}

\* C33: while capture is running every device error is followed, after the
\* back-off, by another attempt to open the device, however many errors
\* there were before; the error ends neither the loop nor the session (the
\* status and the running flag are left as they are).  Once capture is
\* marked stopped the next pass of the loop makes no attempt and the thread
\* ends, for good.
C33_RetryWhileRunning ==
    /\ [][\A s \in Sessions :
            /\ (audio_thread[s] = "backoff" /\ audio_thread'[s] # "backoff")
                 => audio_thread'[s] = "opening"
            /\ (audio_thread[s] = "opening" /\ audio_thread'[s] # "opening")
                 => IF capture_running[s]
                      THEN audio_thread'[s] \in {"streaming", "backoff"}
                      ELSE /\ audio_thread'[s] = "ended"
                           /\ audio_stream'[s] = audio_stream[s]
            /\ (audio_thread[s] # "backoff" /\ audio_thread'[s] = "backoff")
                 => /\ status' = status
                    /\ capture_running' = capture_running
            /\ audio_thread[s] = "ended" => audio_thread'[s] = "ended"]_vars
    /\ \A s \in Sessions :
          (audio_thread[s] = "backoff") ~> (audio_thread[s] = "opening")
    /\ \A s \in Sessions :
          (audio_thread[s] = "opening") ~> (audio_thread[s] # "opening")
    /\ \A s \in Sessions :
          (audio_thread[s] \in AudioInLoop /\ ~capture_running[s])
              ~> (audio_thread[s] = "ended")

\* the device failed twice, the third attempt opened the stream, and the
\* session is still RUNNING
C33_Witness ==
    \E s \in Sessions :
        /\ open_errors[s] = MaxErrors
        /\ audio_thread[s] = "streaming"
        /\ audio_stream[s] = "open"
        /\ capture_running[s]
        /\ status[s] = "running"

\* C34: after LocalCaptureService.stop() has returned, no audio stream of the
\* capturer is open, its audio buffer is empty, and no chunk is emitted any
\* more.
C34_StopReleasesAndDiscards ==
    /\ [](\A s \in Sessions :
            cap_stopped[s] => /\ audio_stream[s] = "none"
                              /\ audio_buffer[s] = <<>>)
    /\ [][\A s \in Sessions : cap_stopped[s] => emitted'[s] = emitted[s]]_vars

\* C35: a _broadcast during which a subscriber connected or disconnected has
\* still ended without an exception and has handed the event to every
\* subscriber that was in the set from its start to its end and has a working
\* transport.
C35_FanOutSurvivesSetChange ==
    (bc_pc = "idle" /\ bc_start # {})
        => /\ ~bc_raised
           /\ \A w \in Reachable : ws_pc[w] = "open" => w \in Got

\* C36: stopping a session hands it to the CRM at most once: along
\* LiveAssistantSession.stop and the /stop-session handler create_lead is
\* invoked at most one time for the session.
C36_OneLeadPerStop ==
    \A s \in Sessions : crm_calls[s] <= 1

\* C37: for a session started with enable_final_sync = false, stopping never
\* invokes create_lead (neither _finalize_lead nor the handler), and the
\* result of the stop carries no lead.
C37_NoLeadWithoutFinalSync ==
    /\ \A s \in Sessions :
          ~config[s].enable_final_sync
              => crm_calls[s] = 0 /\ finalize_runs[s] = 0
    /\ \A c \in Calls :
          (callSess[c] # NoSession /\ ~config[callSess[c]].enable_final_sync)
              => result[c].lead = "none"

\* C38: each subscriber receives the events in the order they were
\* published: when e1 was published before e2, no subscriber's transport
\* holds e2 ahead of e1, also when the two fan-outs overlap
C38_PublishOrderPerSubscriber ==
    \A w \in Subs : \A i, j \in 1..Len(inbox[w]) :
        i < j => inbox[w][i] < inbox[w][j]


\* C39: no target starves: when every insight tick detects the same three
\* targets, none of which has a battlecard at first, and get_battlecard
\* always answers, each of them eventually has a battlecard in
\* session.battlecards
C39_NoTargetStarves ==
    \A s \in Sessions :
        (/\ gemini_calls[s] >= 1
         /\ Cardinality(EveryTickTargets) >= 3) ~>
            (EveryTickTargets \subseteq Competitors(battlecards[s]))

\* C40: a failed start leaks nothing: once start() has ended in ERROR, the
\* capturer of that session is not running (no screen task, no audio thread)
\* and neither its insight task nor its face task is pending, whether the
\* session is still the active one or has been replaced
C40_FailedStartLeaksNothing ==
    \A s \in Sessions :
        status[s] = "error" =>
            /\ ~capture_running[s]
            /\ audio_thread[s] \notin {"opening", "streaming", "backoff"}
            /\ insight_task[s] \notin InsightPending
            /\ face_task[s] \notin InsightPending

====
